---- MODULE Spec2Model ----
(***************************************************************************)
(* Render-state and resource caching engine of the WebGPU renderer:        *)
(*   - PipelineSystem  (bit-packed cache keys, partitioned pipeline cache) *)
(*   - TexturePoolClass (pow2 / screen-relative render-texture pool)       *)
(*   - MultiDrawBuffer  (draw-range arrays of the multi-draw batcher)       *)
(*   - GpuEncoderSystem (command recording with redundant-bind elision)     *)
(*   - BindGroup        (memoized bind-group keys)                          *)
(* Each component has its own specification over the shared variables;     *)
(* the variables of the other components stay at their initial values.     *)
(***************************************************************************)
EXTENDS Integers, Sequences, FiniteSets, TLC

VARIABLES
    \* ---- key packing probes (pure functions of PipelineSystem.ts) ----
    probe,
    \* ---- PipelineSystem fields ----
    stencilMode,            \* _stencilMode (and with it _stencilState)
    colorMask,              \* _colorMask
    multisampleCount,       \* _multisampleCount
    depthStencilAttachment, \* _depthStencilAttachment: 0 none, 1 depth, 3 depth+stencil
    hdr,                    \* _hdr: HdrUnset until the first setRenderTarget
    depthCompareKey,        \* _depthCompareKey
    prevProgKey,            \* _prevProgKey
    prevPipeKey,            \* _prevPipeKey
    pipeRT,                 \* _pipeRT: the global key whose partition it references
    pipeCache,              \* _pipeCache: <<global key, program key>> of the referenced sub-cache
    pipeStateCaches,        \* _pipeStateCaches: <<global key, program key, draw key>> -> pipeline
    pipePartitions,         \* the global keys for which _pipeStateCaches holds a partition
    pipeSubCaches,          \* the <<global key, program key>> pairs for which a sub-cache exists
    pipelines,              \* the device's pipelines, in creation order: their descriptors
    layoutKey,              \* geometry._layoutKey of every geometry (0: not generated yet)
    bufferLayoutsCache,     \* _bufferLayoutsCache: key -> vertex buffer layouts
    bindingNamesCache,      \* _bindingNamesCache: key -> buffer indices
    computeCache,           \* _computeCache: program layout key -> compute pipeline (0: none)
    \* ---- observation of PipelineSystem calls ----
    env,                    \* the values the renderer under observation passes to the setters
    lastCall,               \* the getPipeline call just made (NoCall after any other call)
    watch,                  \* one earlier getPipeline call, picked arbitrarily
    requested,              \* the request tuples getPipeline has been called with
    \* ---- TexturePoolClass fields ----
    texturePool,            \* _texturePool: bucket key -> free list of textures
    poolKeyHash,            \* _poolKeyHash: texture uid -> bucket key recorded at checkout
    screenWidth,            \* _screenWidth
    screenHeight,           \* _screenHeight
    pixelsWidth,            \* _pixelsWidth
    pixelsHeight,           \* _pixelsHeight
    screenThreshold,        \* screenThreshold (configurable)
    enableFullScreen,       \* enableFullScreen
    textures,               \* the textures createTexture made, by uid: their sources
    \* ---- the callers of the pool ----
    callers,                \* the requests the filters under observation make
    held,                   \* the textures checked out and not yet returned
    hung,                   \* a call that never returns has been made
    poolLast,               \* the pool call just made
    \* ---- MultiDrawBuffer fields ----
    bufferSize,             \* size
    bufferCount,            \* count
    offsets,                \* offsets, by index from 0
    counts,                 \* counts
    baseInstances,          \* baseInstances
    instanceCounts,         \* instanceCounts
    params,                 \* params (NoParams: undefined)
    batcher,                \* the sizes and params the batcher under observation passes
    drawLast,               \* the MultiDrawBuffer call just made
    \* ---- GpuEncoderSystem fields ----
    commandEncoder,         \* commandEncoder
    renderPassEncoder,      \* renderPassEncoder: Undefined, Null, or the state of the pass it refers to
    computePassEncoder,     \* computePassEncoder
    commandFinished,        \* commandFinished: the state of the promise
    boundBindGroup,         \* _boundBindGroup, by group index
    boundVertexBuffer,      \* _boundVertexBuffer, by slot
    boundIndexBuffer,       \* _boundIndexBuffer
    boundPipeline,          \* _boundPipeline
    boundCompute,           \* _boundCompute
    sentKey,                \* by group index, what the binding last emitted for the bound group was resolved from
    \* ---- the device the encoder records on ----
    openPasses,             \* passes begun on the current command encoder and not ended
    submittedWork,          \* the queue work of the frame commandFinished belongs to
    encLast,                \* the GpuEncoderSystem call just made
    uses,                   \* what the renderer under observation draws, computes and binds
    \* ---- BindGroup fields, by bind group ----
    resources,              \* resources, by slot
    updateID,               \* _updateID
    groupKeys,              \* _keys: program layout key -> GroupProgPair
    lastLayout,             \* _lastLayout
    keyParts,               \* the module-level keyParts array
    subscribed,             \* the listeners of a resource's 'change' event that call the group's onResourceChange
    resourceIds,            \* _resourceId, by resource
    destroyedResources,     \* the resources whose destroyed flag is set
    unreported,             \* the slots a destruction nulled that no getGpuKey has referenced since
    edits,                  \* the calls and notifications the owners under observation make
    bgLast,                 \* the BindGroup call just made
    \* ---- GpuTextureSystem fields ----
    gpuSources,             \* _gpuSources: source uid -> GPU texture (0: null or absent)
    textureViewHash,        \* _textureViewHash: source uid -> the GPU texture its view was created from (0: none)
    bindGroupHash,          \* _bindGroupHash: the uids that hold a bind group
    managedTextures,        \* managedTextures: the sources whose events the system listens to
    \* ---- the device and the sources the texture system works on ----
    gpuTextures,            \* the GPU textures createTexture made, in creation order
    sourceWidth,            \* pixelWidth of every source
    texLast                 \* the GpuTextureSystem call just made

keyVars == <<probe>>
poolVars == <<texturePool, poolKeyHash, screenWidth, screenHeight, pixelsWidth, pixelsHeight,
              screenThreshold, enableFullScreen, textures, callers, held, hung, poolLast>>
pipeVars == <<stencilMode, colorMask, multisampleCount, depthStencilAttachment, hdr,
              depthCompareKey, prevProgKey, prevPipeKey, pipeRT, pipeCache,
              pipeStateCaches, pipePartitions, pipeSubCaches, pipelines, layoutKey,
              bufferLayoutsCache, bindingNamesCache, computeCache,
              env, lastCall, watch, requested>>
drawVars == <<bufferSize, bufferCount, offsets, counts, baseInstances, instanceCounts,
              params, batcher, drawLast>>
encVars == <<commandEncoder, renderPassEncoder, computePassEncoder, commandFinished,
             boundBindGroup, boundVertexBuffer, boundIndexBuffer, boundPipeline,
             boundCompute, sentKey, openPasses, submittedWork, encLast, uses>>
bgVars == <<resources, updateID, groupKeys, lastLayout, keyParts, subscribed, resourceIds,
            destroyedResources, unreported, edits, bgLast>>
texVars == <<gpuSources, textureViewHash, bindGroupHash, managedTextures, gpuTextures,
             sourceWidth, texLast>>
vars == <<keyVars, pipeVars, poolVars, drawVars, encVars, bgVars, texVars>>

\* The texture sources under observation, by uid; uids of textures are drawn
\* from the same numbers.
Sources == {1, 2}

NoTextureCall == [op |-> "none"]

(***************************************************************************)
(* JavaScript values shared by the encoder and the bind groups.            *)
(***************************************************************************)
Undefined == "undefined"
Null == "null"
Truthy(x) == x \notin {Undefined, Null}

\* the slots and group indices in use; _clearCache nulls these and the
\* remaining ones up to 15, which nothing here ever binds
BoundSlots == {0, 1}

\* the slots of a bind group's resources
ResourceSlots == {0, 1}

\* the bind group objects
Groups == {"G1", "G2"}

\* the _layoutKey values of the programs
LayoutKeys == {1, 2}

BindResources == {"r1", "r2", "r3"}

\* _resourceId
resourceId(r) == CASE r = "r1" -> 11 [] r = "r2" -> 12 [] OTHER -> 13

\* no binding was emitted at a group index since it was last cleared
NoBinding == [sent |-> FALSE]

\* a GroupProgPair that _keys does not hold
NoPair == [present |-> FALSE, dirtyId |-> -1, key |-> ""]

\* no snapshot of the bound-state tables was taken
NoSnapshot == [taken |-> FALSE]

NoEncoderCall == [op |-> "none", arg |-> <<>>, out |-> <<>>, threw |-> FALSE,
                  begunOver |-> {}, repeat |-> FALSE, rebinds |-> {},
                  snapshot |-> NoSnapshot]
NoGroupCall == [op |-> "none", bindGroup |-> "", layoutKey |-> 0, group |-> 0,
                resource |-> "", destroyed |-> FALSE, result |-> "", threw |-> FALSE,
                surfacing |-> FALSE]

\* owners that make no BindGroup call
NoEdits == [sets |-> {}, emitters |-> {}, renewers |-> {}, asks |-> {}]

\* a renderer that makes no draw, compute or bind call
NoUses == [geometries |-> {}, shaders |-> {}, pipelines |-> {}, computes |-> {},
           binds |-> {}]

(***************************************************************************)
(* 32-bit integer arithmetic of the JavaScript bit operators.              *)
(***************************************************************************)
MinInt32 == (-(2^30)) - 2^30

\* x << n for 1 <= n <= 30: the low 32-n bits of x move up, bit 31-n becomes the sign.
Shl(x, n) ==
    LET half == 2^(31 - n)
        low == x % half
        top == (x \div half) % 2
    IN  IF top = 1 THEN MinInt32 + low * 2^n ELSE low * 2^n

RECURSIVE BitOr(_, _)
\* a | b on two's complement integers.
BitOr(a, b) ==
    IF a = 0 THEN b
    ELSE IF b = 0 THEN a
    ELSE IF a = -1 \/ b = -1 THEN -1
    ELSE (IF a % 2 = 1 \/ b % 2 = 1 THEN 1 ELSE 0) + 2 * BitOr(a \div 2, b \div 2)

RECURSIVE BitAnd(_, _)
\* a & b on two's complement integers.
BitAnd(a, b) ==
    IF a = 0 \/ b = 0 THEN 0
    ELSE IF a = -1 THEN b
    ELSE IF b = -1 THEN a
    ELSE (IF a % 2 = 1 /\ b % 2 = 1 THEN 1 ELSE 0) + 2 * BitAnd(a \div 2, b \div 2)

(***************************************************************************)
(* PipelineSystem.ts: the three key packing functions.                     *)
(***************************************************************************)
HdrUnset == -1
\* a number operand of << or | that is undefined converts to 0
NumOrZero(x) == IF x = HdrUnset THEN 0 ELSE x

\* getProgKey that forgets to pack the topology
getProgKeyNoTopology(geometryLayout, shaderKey, topology) ==
    BitOr(Shl(geometryLayout, 13), Shl(shaderKey, 3))

getProgKey(geometryLayout, shaderKey, topology) ==
    BitOr(BitOr(Shl(geometryLayout, 13), Shl(shaderKey, 3)), topology)

\* getGraphicsStateKey with the state shifted by one bit too few
getGraphicsStateKeyNarrow(customId, depthCompare, state, blendMode) ==
    BitOr(BitOr(BitOr(Shl(customId, 15), Shl(depthCompare, 12)), Shl(state, 4)), blendMode)

getGraphicsStateKey(customId, depthCompare, state, blendMode) ==
    BitOr(BitOr(BitOr(Shl(customId, 15), Shl(depthCompare, 12)), Shl(state, 5)), blendMode)

getGlobalStateKey(stencilStateId, multiSampleCount, cMask, renderTarget, hdrTier) ==
    LET stencilId == IF BitAnd(renderTarget, 1) = 0 THEN 0 ELSE stencilStateId
    IN  BitOr(BitOr(BitOr(BitOr(Shl(cMask, 8), Shl(stencilId, 5)), Shl(renderTarget, 3)),
                    Shl(NumOrZero(hdrTier), 1)), multiSampleCount)

(***************************************************************************)
(* Key packing probes: the packing functions applied to argument tuples.   *)
(***************************************************************************)
\* bit widths the shifts of getGraphicsStateKey leave to each field
BlendBits == 5
StateBits == 7
DepthCompareBits == 3
CustomIdBits == 17

NoProbe == [fn |-> "none"]

\* global render-target state tuples: every value of every field
GlobalTuples ==
    [cMask : 0..15, stencil : 0..7, rt : {0, 1, 3}, hdrTier : {0, 1, 2}, ms : {1, 4}]

\* draw-state tuples: the ends of every field's range, and blend mode and custom ids
\* beyond the bits the shifts leave them
DrawTuples ==
    [customId : {0, 1, 2^CustomIdBits - 1, 2^CustomIdBits},
     depthCompare : {0, 1, 2^DepthCompareBits - 1},
     state : {0, 1, 2^StateBits - 1},
     blend : {0, 1, 2^BlendBits - 1, 2^BlendBits, 255}]

GlobalKeyOf(t) == getGlobalStateKey(t.stencil, t.ms, t.cMask, t.rt, t.hdrTier)
DrawKeyOf(t) == getGraphicsStateKey(t.customId, t.depthCompare, t.state, t.blend)


(***************************************************************************)
(* PipelineSystem: geometries, programs, render targets and requests.      *)
(***************************************************************************)
NoKey == -1                     \* initial _prevProgKey / _prevPipeKey
DISABLED == 0                   \* STENCIL_MODES.DISABLED
RENDERING_MASK_ADD == 1         \* STENCIL_MODES.RENDERING_MASK_ADD
MaxPipelines == 2               \* pipelines the device creates in one run

topologyStringToId ==
    [t \in {"point-list", "line-list", "line-strip", "triangle-list", "triangle-strip"} |->
        CASE t = "point-list" -> 0
          [] t = "line-list" -> 1
          [] t = "line-strip" -> 2
          [] t = "triangle-list" -> 3
          [] t = "triangle-strip" -> 4]

\* g1 and g2 have no proto; g3, g4 and g5 share the proto p
Geoms == {"g1", "g2", "g3", "g4", "g5", "p"}

\* the program layout keys getComputePipeline is called with
ComputeKeys == {1, 2}

\* an entry of geometry.attributes
Attribute(name, offset, format, stride, instance, buffer_index, divisor) ==
    [name |-> name, offset |-> offset, format |-> format, stride |-> stride,
     instance |-> instance, buffer_index |-> buffer_index, divisor |-> divisor]

\* geometry.attributes, in the order of the attribute names
GeomAttributes(g) ==
    CASE g \in {"g1", "p"} -> <<Attribute("aPosition", 0, "float32x2", 8, FALSE, 0, 1)>>
      [] g = "g2" -> <<Attribute("aPosition", 0, "float32x2", 16, FALSE, 0, 1),
                       Attribute("aUV", 8, "float32x2", 16, FALSE, 0, 1)>>
      [] g = "g3" -> <<Attribute("aUV", 0, "float32x2", 8, FALSE, 0, 1)>>
      [] g = "g4" -> <<Attribute("aPosition", 0, "float32x2", 8, FALSE, 0, 1),
                       Attribute("aUV", 0, "float32x2", 8, FALSE, 1, 1)>>
      [] g = "g5" -> <<Attribute("aPosition", 0, "float32x2", 8, TRUE, 0, 2)>>

\* geometry.buffers.length
GeomBuffers(g) == IF g = "g4" THEN {0, 1} ELSE {0}

\* String(boolean)
BoolString(b) == IF b THEN "true" ELSE "false"

RECURSIVE AttributeKeys(_)
\* keyGen.join(''): offset, format, stride, instance and buffer_index of every attribute
AttributeKeys(attributes) ==
    IF attributes = <<>> THEN ""
    ELSE LET a == Head(attributes)
         IN  ToString(a.offset) \o a.format \o ToString(a.stride) \o BoolString(a.instance)
                 \o ToString(a.buffer_index) \o AttributeKeys(Tail(attributes))

\* the joined attribute list _generateBufferKey builds for the geometry
GeomAttributeString(g) == AttributeKeys(GeomAttributes(g))
GeomTopology(g) == "triangle-list"
\* geometry.proto
GeomProto(g) == IF g \in {"g3", "g4", "g5"} THEN "p" ELSE "none"

\* geometries with pairwise different attribute strings, by id
LayoutIdOrder == <<"g1", "g2", "g5", "g4">>

\* createIdFromString(value, 'geometry'): one id per distinct string, from 1
createIdFromString(str) ==
    CHOOSE i \in DOMAIN LayoutIdOrder : GeomAttributeString(LayoutIdOrder[i]) = str

\* the programs, by _layoutKey
Programs == {1, 2, 3, 4}

\* program.attributeData, in the order of the attribute names: name and location
ProgramAttributes(program) ==
    CASE program = 1 -> <<[name |-> "aPosition", location |-> 0]>>
      [] program = 2 -> <<[name |-> "aPosition", location |-> 0],
                          [name |-> "aUV", location |-> 1]>>
      [] program = 3 -> <<[name |-> "aPosition", location |-> 0],
                          [name |-> "aTint", location |-> 1]>>
      [] program = 4 -> <<[name |-> "aUV", location |-> 0]>>

RECURSIVE LocationKeys(_)
\* keyGen.join('|'): the locations of the attributes
LocationKeys(attributeData) ==
    IF attributeData = <<>> THEN ""
    ELSE IF Len(attributeData) = 1 THEN ToString(attributeData[1].location)
    ELSE ToString(attributeData[1].location) \o "|" \o LocationKeys(Tail(attributeData))

\* _generateAttributeLocationsKey: createIdFromString(stringKey, 'programAttributes'),
\* one id per distinct string
attributeLocationsKey(program) ==
    IF LocationKeys(ProgramAttributes(program)) = "0" THEN 1 ELSE 2

\* program.attributeData[name]
AttrData(program, name) ==
    {d \in {ProgramAttributes(program)[i] : i \in DOMAIN ProgramAttributes(program)} :
        d.name = name}

\* the attributes of buffer i that the program declares
Matched(g, program, i) ==
    LET Declared(a) == a.buffer_index = i /\ AttrData(program, a.name) # {}
    IN  SelectSeq(GeomAttributes(g), Declared)

\* the bufferEntry of buffer i
BufferEntry(g, program, i) ==
    LET matched == Matched(g, program, i)
        last == matched[Len(matched)]
    IN  [arrayStride |-> last.stride,
         stepMode |-> IF last.instance THEN "instance" ELSE "vertex",
         attributes |-> [j \in DOMAIN matched |->
                           [shaderLocation |->
                                (CHOOSE d \in AttrData(program, matched[j].name) : TRUE).location,
                            offset |-> matched[j].offset, format |-> matched[j].format]]]

RECURSIVE EntriesFrom(_, _, _)
\* the loop over geometry.buffers from buffer i on: vertexBuffersLayout and
\* buffer_indices
EntriesFrom(g, program, i) ==
    IF i \notin GeomBuffers(g) THEN [layout |-> <<>>, indices |-> <<>>]
    ELSE LET rest == EntriesFrom(g, program, i + 1)
         IN  IF Matched(g, program, i) = <<>> THEN rest
             ELSE [layout |-> <<BufferEntry(g, program, i)>> \o rest.layout,
                   indices |-> <<i>> \o rest.indices]

\* the warnings of one computation
Warnings(g, program) ==
    {"divisor" : i \in {j \in GeomBuffers(g) :
                          \E k \in DOMAIN Matched(g, program, j) :
                              Matched(g, program, j)[k].divisor # 1}}
        \cup {"missing" : d \in {ProgramAttributes(program)[i] :
                                    i \in DOMAIN ProgramAttributes(program)} \
                                 {d \in {ProgramAttributes(program)[i] :
                                           i \in DOMAIN ProgramAttributes(program)} :
                                     \E k \in DOMAIN GeomAttributes(g) :
                                         GeomAttributes(g)[k].name = d.name}}

\* (geometry._layoutKey << 16) | program._attributeLocationsKey
layoutsKey(geometryLayout, program) ==
    BitOr(Shl(geometryLayout, 16), attributeLocationsKey(program))

\* _generateBufferKey(geometry)
generateBufferKey(keys, g) == [keys EXCEPT ![g] = createIdFromString(GeomAttributeString(g))]

\* ensureGeometryLayoutKey: the geometries' keys after the call. The key taken
\* from the proto (line 408) is followed by _generateBufferKey (line 412).
ensureGeometryLayoutKey(keys, g) ==
    IF keys[g] # 0 THEN keys
    ELSE LET proto == GeomProto(g)
             inherited == IF proto \in Geoms /\ keys[proto] # 0
                          THEN [keys EXCEPT ![g] = keys[proto]] ELSE keys
             own == generateBufferKey(inherited, g)
         IN  IF proto \in Geoms THEN [own EXCEPT ![proto] = own[g]] ELSE own

\* a draw request: geometry, program (its _layoutKey), topology argument ("none": the
\* geometry's own), and the State fields that enter the key
BaseRequest ==
    [geometry |-> "g1", program |-> 1, topology |-> "none",
     customId |-> 0, data |-> 1, blend |-> 0]

RequestDims == {"geometry", "program", "topology", "customId", "data", "blend"}

VariantRequest(dim) ==
    CASE dim = "geometry" -> [BaseRequest EXCEPT !.geometry = "g2"]
      [] dim = "program" -> [BaseRequest EXCEPT !.program = 2]
      [] dim = "topology" -> [BaseRequest EXCEPT !.topology = "line-list"]
      [] dim = "customId" -> [BaseRequest EXCEPT !.customId = 1]
      [] dim = "data" -> [BaseRequest EXCEPT !.data = 3]
      [] dim = "blend" -> [BaseRequest EXCEPT !.blend = 1]

\* render targets: msaaSamples, the depthStencilAttachment of the descriptor
\* ("none", "depth": no stencilLoadOp, "depthStencil": with stencilLoadOp), hdr
RtPlain == [msaaSamples |-> 1, depthStencil |-> "none", hdr |-> 0]
RtDepth == [msaaSamples |-> 1, depthStencil |-> "depth", hdr |-> 0]
RtStencil == [msaaSamples |-> 1, depthStencil |-> "depthStencil", hdr |-> 0]
RtMsaa == [msaaSamples |-> 4, depthStencil |-> "depthStencil", hdr |-> 0]
RtMsaaHdr == [msaaSamples |-> 4, depthStencil |-> "depthStencil", hdr |-> 2]

\* what one renderer passes to the setters
Quiet ==
    [colorMasks |-> {15}, stencilModes |-> {DISABLED}, depthCompareKeys |-> {0},
     sampleCounts |-> {1}, renderTargets |-> {RtPlain}]

\* the renderers observed: each exercises one part of the global state and draws the
\* base request and one request that differs from it in one dimension
Renderers ==
    { [setters |-> [Quiet EXCEPT !.colorMasks = {15, 5}], variant |-> "blend"],
      [setters |-> [Quiet EXCEPT !.stencilModes = {DISABLED, RENDERING_MASK_ADD},
                                 !.renderTargets = {RtStencil}], variant |-> "data"],
      [setters |-> [Quiet EXCEPT !.stencilModes = {DISABLED, RENDERING_MASK_ADD}],
       variant |-> "customId"],
      [setters |-> [Quiet EXCEPT !.depthCompareKeys = {0, 2}, !.renderTargets = {RtDepth}],
       variant |-> "topology"],
      [setters |-> [Quiet EXCEPT !.sampleCounts = {1, 4}], variant |-> "program"],
      [setters |-> [Quiet EXCEPT !.renderTargets = {RtMsaa, RtMsaaHdr}],
       variant |-> "geometry"] }

(***************************************************************************)
(* PipelineSystem: state after construction and contextChange.             *)
(***************************************************************************)
NoCall == [made |-> FALSE]

\* contextChange: setStencilMode(DISABLED), which selects the first partition
InitialGlobalKey == getGlobalStateKey(DISABLED, 1, 15, 0, HdrUnset)

NoWatch == [made |-> FALSE]

InitPipeline ==
    /\ probe = NoProbe
    /\ stencilMode = DISABLED
    /\ colorMask = 15
    /\ multisampleCount = 1
    /\ depthStencilAttachment = 0
    /\ hdr = HdrUnset
    /\ depthCompareKey = 0
    /\ prevProgKey = NoKey
    /\ prevPipeKey = InitialGlobalKey
    /\ pipeRT = InitialGlobalKey
    /\ pipeCache = <<NoKey, NoKey>>
    /\ pipeStateCaches = <<>>
    /\ pipePartitions = {InitialGlobalKey}
    /\ pipeSubCaches = {}
    /\ pipelines = <<>>
    /\ layoutKey = [g \in Geoms |-> 0]
    /\ bufferLayoutsCache = <<>>
    /\ bindingNamesCache = <<>>
    /\ computeCache = [k \in ComputeKeys |-> 0]
    /\ env \in Renderers
    /\ lastCall = NoCall
    /\ watch = NoWatch
    /\ requested = {}
    /\ texturePool = <<>>
    /\ poolKeyHash = <<>>
    /\ screenWidth = 0
    /\ screenHeight = 0
    /\ pixelsWidth = 0
    /\ pixelsHeight = 0
    /\ screenThreshold = 512
    /\ enableFullScreen = FALSE
    /\ textures = <<>>
    /\ callers = {}
    /\ held = {}
    /\ hung = FALSE
    /\ poolLast = [op |-> "none"]
    /\ bufferSize = 0
    /\ bufferCount = 0
    /\ offsets = <<>>
    /\ counts = <<>>
    /\ baseInstances = <<>>
    /\ instanceCounts = <<>>
    /\ params = [given |-> FALSE]
    /\ batcher = [sizes |-> {}, params |-> {}]
    /\ drawLast = [op |-> "none", returned |-> TRUE]
    /\ commandEncoder = Undefined
    /\ renderPassEncoder = Undefined
    /\ computePassEncoder = Undefined
    /\ commandFinished = Undefined
    /\ boundBindGroup = [i \in BoundSlots |-> Undefined]
    /\ boundVertexBuffer = [i \in BoundSlots |-> Undefined]
    /\ boundIndexBuffer = Undefined
    /\ boundPipeline = Undefined
    /\ boundCompute = -1
    /\ sentKey = [i \in BoundSlots |-> NoBinding]
    /\ openPasses = 0
    /\ submittedWork = "none"
    /\ encLast = NoEncoderCall
    /\ uses = NoUses
    /\ resources = [g \in Groups |-> [i \in ResourceSlots |-> Undefined]]
    /\ updateID = [g \in Groups |-> -1]
    /\ groupKeys = [g \in Groups |-> [k \in LayoutKeys |-> NoPair]]
    /\ lastLayout = [g \in Groups |-> -1]
    /\ keyParts = <<>>
    /\ subscribed = [g \in Groups |-> [r \in BindResources |-> 0]]
    /\ resourceIds = [r \in BindResources |-> resourceId(r)]
    /\ destroyedResources = {}
    /\ unreported = [g \in Groups |-> {}]
    /\ edits = NoEdits
    /\ bgLast = NoGroupCall
    /\ gpuSources = [s \in Sources |-> 0]
    /\ textureViewHash = [s \in Sources |-> 0]
    /\ bindGroupHash = {}
    /\ managedTextures = {}
    /\ gpuTextures = <<>>
    /\ sourceWidth = [s \in Sources |-> 1]
    /\ texLast = NoTextureCall

Requests ==
    IF "requests" \in DOMAIN env THEN env.requests
    ELSE {BaseRequest, VariantRequest(env.variant)}

(***************************************************************************)
(* PipelineSystem: _updatePipeHash and the setters.                        *)
(***************************************************************************)
\* _updatePipeHash that starts every selected partition empty
updatePipeHashFresh(st, ms, cm, att, h) ==
    LET key == getGlobalStateKey(st, ms, cm, att, h)
        kept == {d \in DOMAIN pipeStateCaches : d[1] # key}
    IN  IF prevPipeKey = key
        THEN [prevPipeKey |-> prevPipeKey, prevProgKey |-> prevProgKey, pipeRT |-> pipeRT,
              partitions |-> pipePartitions, subCaches |-> pipeSubCaches,
              entries |-> pipeStateCaches]
        ELSE [prevPipeKey |-> key, prevProgKey |-> NoKey, pipeRT |-> key,
              partitions |-> pipePartitions \cup {key},
              subCaches |-> {c \in pipeSubCaches : c[1] # key},
              entries |-> [d \in kept |-> pipeStateCaches[d]]]

\* _updatePipeHash that keeps the program key of the previous getPipeline
updatePipeHashKeepsProgKey(st, ms, cm, att, h) ==
    LET key == getGlobalStateKey(st, ms, cm, att, h)
    IN  IF prevPipeKey = key
        THEN [prevPipeKey |-> prevPipeKey, prevProgKey |-> prevProgKey, pipeRT |-> pipeRT,
              partitions |-> pipePartitions, subCaches |-> pipeSubCaches,
              entries |-> pipeStateCaches]
        ELSE [prevPipeKey |-> key, prevProgKey |-> prevProgKey, pipeRT |-> key,
              partitions |-> pipePartitions \cup {key}, subCaches |-> pipeSubCaches,
              entries |-> pipeStateCaches]

\* _updatePipeHash under the given field values: the new _prevPipeKey, _prevProgKey,
\* _pipeRT and _pipeStateCaches (its partitions and their entries)
updatePipeHash(st, ms, cm, att, h) ==
    LET key == getGlobalStateKey(st, ms, cm, att, h)
    IN  IF prevPipeKey = key
        THEN [prevPipeKey |-> prevPipeKey, prevProgKey |-> prevProgKey, pipeRT |-> pipeRT,
              partitions |-> pipePartitions, subCaches |-> pipeSubCaches,
              entries |-> pipeStateCaches]
        ELSE [prevPipeKey |-> key, prevProgKey |-> NoKey, pipeRT |-> key,
              partitions |-> pipePartitions \cup {key}, subCaches |-> pipeSubCaches,
              entries |-> pipeStateCaches]

ApplyPipeHash(u) ==
    /\ prevPipeKey' = u.prevPipeKey
    /\ prevProgKey' = u.prevProgKey
    /\ pipeRT' = u.pipeRT
    /\ pipePartitions' = u.partitions
    /\ pipeSubCaches' = u.subCaches
    /\ pipeStateCaches' = u.entries

PipeHashUnchanged ==
    UNCHANGED <<prevPipeKey, prevProgKey, pipeRT, pipePartitions, pipeSubCaches,
                pipeStateCaches>>

\* the watched call sees whether the global state has since left the one it was made in
WatchAfter(st, ms, cm, att, h) ==
    IF watch.made /\ watch.glob # [stencilMode |-> st, colorMask |-> cm,
                                   multisampleCount |-> ms,
                                   depthStencilAttachment |-> att, hdr |-> h]
    THEN [watch EXCEPT !.away = TRUE]
    ELSE watch

SetterFrame ==
    UNCHANGED <<pipeCache, pipelines, layoutKey, bufferLayoutsCache, bindingNamesCache,
                computeCache, env, requested, keyVars, poolVars,
                drawVars, texVars, encVars, bgVars>>

setMultisampleCount ==
    \E m \in env.setters.sampleCounts :
        /\ IF multisampleCount = m
           THEN UNCHANGED multisampleCount /\ PipeHashUnchanged
           ELSE /\ multisampleCount' = m
                /\ ApplyPipeHash(updatePipeHash(stencilMode, m, colorMask,
                                                depthStencilAttachment, hdr))
        /\ watch' = WatchAfter(stencilMode, m, colorMask, depthStencilAttachment, hdr)
        /\ lastCall' = NoCall
        /\ UNCHANGED <<stencilMode, colorMask, depthStencilAttachment, hdr, depthCompareKey>>
        /\ SetterFrame

\* _depthStencilAttachment of a render target descriptor
AttachmentKind(rt) ==
    IF rt.depthStencil = "none" THEN 0
    ELSE BitOr(1, IF rt.depthStencil = "depthStencil" THEN 2 ELSE 0)

setRenderTarget ==
    \E rt \in env.setters.renderTargets :
        /\ multisampleCount' = rt.msaaSamples
        /\ depthStencilAttachment' = AttachmentKind(rt)
        /\ hdr' = rt.hdr
        /\ ApplyPipeHash(updatePipeHash(stencilMode, rt.msaaSamples, colorMask,
                                        AttachmentKind(rt), rt.hdr))
        /\ watch' = WatchAfter(stencilMode, rt.msaaSamples, colorMask,
                               AttachmentKind(rt), rt.hdr)
        /\ lastCall' = NoCall
        /\ UNCHANGED <<stencilMode, colorMask, depthCompareKey>>
        /\ SetterFrame

setColorMask ==
    \E cm \in env.setters.colorMasks :
        /\ IF colorMask = cm
           THEN UNCHANGED colorMask /\ PipeHashUnchanged
           ELSE /\ colorMask' = cm
                /\ ApplyPipeHash(updatePipeHash(stencilMode, multisampleCount, cm,
                                                depthStencilAttachment, hdr))
        /\ watch' = WatchAfter(stencilMode, multisampleCount, cm,
                               depthStencilAttachment, hdr)
        /\ lastCall' = NoCall
        /\ UNCHANGED <<stencilMode, multisampleCount, depthStencilAttachment, hdr,
                       depthCompareKey>>
        /\ SetterFrame

setDepthCompareKey ==
    \E k \in env.setters.depthCompareKeys :
        /\ depthCompareKey' = k
        /\ UNCHANGED watch
        /\ lastCall' = NoCall
        /\ UNCHANGED <<stencilMode, colorMask, multisampleCount, depthStencilAttachment, hdr>>
        /\ PipeHashUnchanged
        /\ SetterFrame

setStencilMode ==
    \E sm \in env.setters.stencilModes :
        /\ IF stencilMode = sm
           THEN UNCHANGED stencilMode /\ PipeHashUnchanged
           ELSE /\ stencilMode' = sm
                /\ ApplyPipeHash(updatePipeHash(sm, multisampleCount, colorMask,
                                                depthStencilAttachment, hdr))
        /\ watch' = WatchAfter(sm, multisampleCount, colorMask,
                               depthStencilAttachment, hdr)
        /\ lastCall' = NoCall
        /\ UNCHANGED <<colorMask, multisampleCount, depthStencilAttachment, hdr,
                       depthCompareKey>>
        /\ SetterFrame

(***************************************************************************)
(* PipelineSystem: getPipeline and _createPipeline.                        *)
(***************************************************************************)
HDR_FORMATS(h) ==
    CASE h = 0 -> "bgra8unorm"
      [] h = 1 -> "rgba16float"
      [] h = 2 -> "rgba32float"
      [] OTHER -> "undefined"

\* the part of the pipeline descriptor _createPipeline takes from the global state
GlobalDescriptor ==
    [writeMask |-> IF stencilMode = RENDERING_MASK_ADD THEN 0 ELSE colorMask,
     format |-> HDR_FORMATS(hdr),
     count |-> multisampleCount,
     depthStencil |->
        IF depthStencilAttachment # 0
        THEN [stencil |-> stencilMode,
              format |-> IF depthStencilAttachment = 1 THEN "depth32float"
                                                        ELSE "depth24plus-stencil8"]
        ELSE [stencil |-> "none", format |-> "none"]]

\* _createVertexBufferLayouts that looks nothing up
createVertexBufferLayoutsFresh(geometryLayout, g, program) ==
    LET key == layoutsKey(geometryLayout, program)
        made == EntriesFrom(g, program, 0)
    IN  [key |-> key, hit |-> FALSE, layout |-> made.layout,
         layouts |-> (key :> made.layout) @@ bufferLayoutsCache,
         names |-> (key :> made.indices) @@ bindingNamesCache,
         warned |-> Warnings(g, program)]

\* _createVertexBufferLayouts: the layout returned, the two caches after the
\* call and the warnings issued
createVertexBufferLayouts(geometryLayout, g, program) ==
    LET key == layoutsKey(geometryLayout, program)
        made == EntriesFrom(g, program, 0)
    IN  IF key \in DOMAIN bufferLayoutsCache
        THEN [key |-> key, hit |-> TRUE, layout |-> bufferLayoutsCache[key],
              layouts |-> bufferLayoutsCache, names |-> bindingNamesCache, warned |-> {}]
        ELSE [key |-> key, hit |-> FALSE, layout |-> made.layout,
              layouts |-> (key :> made.layout) @@ bufferLayoutsCache,
              names |-> (key :> made.indices) @@ bindingNamesCache,
              warned |-> Warnings(g, program)]

\* the descriptor handed to device.createRenderPipeline
createPipeline(req, buffers, topology) ==
    [buffers |-> buffers, program |-> req.program, topology |-> topology,
     customId |-> req.customId, data |-> req.data, blend |-> req.blend,
     depthCompare |-> IF depthStencilAttachment # 0 THEN depthCompareKey ELSE 0,
     global |-> GlobalDescriptor]

\* the selection of the sub-cache without the test for an existing one
selectSubCacheFresh(progKey) ==
    IF prevProgKey # progKey
    THEN [prevProgKey |-> progKey, pipeCache |-> <<pipeRT, progKey>>,
          subCaches |-> pipeSubCaches \cup {<<pipeRT, progKey>>},
          entries |-> [d \in {e \in DOMAIN pipeStateCaches :
                                  <<e[1], e[2]>> # <<pipeRT, progKey>>} |->
                          pipeStateCaches[d]]]
    ELSE [prevProgKey |-> prevProgKey, pipeCache |-> pipeCache, subCaches |-> pipeSubCaches,
          entries |-> pipeStateCaches]

\* lines 214-222: the sub-cache _pipeCache references after the program key is known,
\* and the entries of _pipeStateCaches after its selection
selectSubCache(progKey) ==
    IF prevProgKey # progKey
    THEN [prevProgKey |-> progKey, pipeCache |-> <<pipeRT, progKey>>,
          subCaches |-> pipeSubCaches \cup {<<pipeRT, progKey>>},
          entries |-> pipeStateCaches]
    ELSE [prevProgKey |-> prevProgKey, pipeCache |-> pipeCache, subCaches |-> pipeSubCaches,
          entries |-> pipeStateCaches]

\* line 224
effectiveDepthCompare ==
    IF BitAnd(depthStencilAttachment, 1) # 0 THEN depthCompareKey ELSE 0

GlobalValues ==
    [stencilMode |-> stencilMode, colorMask |-> colorMask,
     multisampleCount |-> multisampleCount,
     depthStencilAttachment |-> depthStencilAttachment, hdr |-> hdr]

getPipeline ==
    \E req \in Requests, keep \in BOOLEAN :
      \E keys \in {ensureGeometryLayoutKey(layoutKey, req.geometry)} :
        \E topology \in {IF req.topology = "none" THEN GeomTopology(req.geometry)
                                                  ELSE req.topology} :
          \E progKey \in {getProgKey(keys[req.geometry], req.program,
                                     topologyStringToId[topology])} :
            \E sel \in {selectSubCache(progKey)} :
              \E key \in {getGraphicsStateKey(req.customId, effectiveDepthCompare,
                                              req.data, req.blend)} :
                LET slot == <<sel.pipeCache[1], sel.pipeCache[2], key>>
                    hit == slot \in DOMAIN sel.entries
                    made == createVertexBufferLayouts(keys[req.geometry], req.geometry,
                                                      req.program)
                    ret == IF hit THEN sel.entries[slot] ELSE Len(pipelines) + 1
                    vector == [geometryLayout |-> keys[req.geometry],
                               program |-> req.program,
                               topology |-> topologyStringToId[topology],
                               customId |-> req.customId, data |-> req.data,
                               blend |-> req.blend,
                               depthCompare |-> effectiveDepthCompare]
                IN  /\ hit \/ Len(pipelines) < MaxPipelines
                    /\ keep => ~watch.made
                    /\ layoutKey' = keys
                    /\ prevProgKey' = sel.prevProgKey
                    /\ pipeCache' = sel.pipeCache
                    /\ pipeSubCaches' = sel.subCaches
                    /\ IF hit
                       THEN /\ pipeStateCaches' = sel.entries
                            /\ UNCHANGED <<pipelines, bufferLayoutsCache, bindingNamesCache>>
                       ELSE /\ pipelines' =
                                Append(pipelines, createPipeline(req, made.layout, topology))
                            /\ bufferLayoutsCache' = made.layouts
                            /\ bindingNamesCache' = made.names
                            /\ pipeStateCaches' = (slot :> ret) @@ sel.entries
                    /\ lastCall' = [made |-> TRUE, vector |-> vector, glob |-> GlobalValues,
                                    ret |-> ret, built |-> ~hit,
                                    fresh |-> vector \notin requested, isWatch |-> keep,
                                    request |-> req,
                                    warned |-> IF hit THEN {} ELSE made.warned,
                                    layoutHit |-> ~hit /\ made.hit]
                    /\ watch' = IF keep
                                THEN [made |-> TRUE, vector |-> vector,
                                      glob |-> GlobalValues, ret |-> ret,
                                      away |-> FALSE]
                                ELSE watch
                    /\ requested' = requested \cup {vector}
                    /\ UNCHANGED <<stencilMode, colorMask, multisampleCount,
                                   depthStencilAttachment, hdr, depthCompareKey,
                                   prevPipeKey, pipeRT, pipePartitions, env, computeCache,
                                   keyVars,
                                   poolVars, drawVars, texVars, encVars, bgVars>>

NextPipeline ==
    \/ setMultisampleCount
    \/ setRenderTarget
    \/ setColorMask
    \/ setDepthCompareKey
    \/ setStencilMode
    \/ getPipeline

SpecPipeline == InitPipeline /\ [][NextPipeline]_vars

(***************************************************************************)
(* PipelineSystem: properties.                                             *)
(***************************************************************************)
\* the call just made and an earlier call, the watched one
TwoCalls == lastCall.made /\ watch.made /\ ~lastCall.isWatch

DiffersInOne(v, w) == Cardinality({d \in DOMAIN v : v[d] # w[d]}) = 1

\* C1: two getPipeline calls with the same geometry layout key, program layout key,
\* topology, customId, data, blend mode id and effective depth-compare key, made under
\* the same global state values, return the same pipeline, and the later one creates none.
KeyStability ==
    (TwoCalls /\ lastCall.vector = watch.vector /\ lastCall.glob = watch.glob)
        => (lastCall.ret = watch.ret /\ ~lastCall.built)

KeyStabilityWitness ==
    /\ TwoCalls
    /\ lastCall.vector = watch.vector
    /\ lastCall.glob = watch.glob
    /\ Len(pipelines) = 2

EntriesPreserved ==
    /\ pipePartitions \subseteq pipePartitions'
    /\ pipeSubCaches \subseteq pipeSubCaches'
    /\ \A d \in DOMAIN pipeStateCaches :
          d \in DOMAIN pipeStateCaches' /\ pipeStateCaches'[d] = pipeStateCaches[d]

ServedAgain ==
    (TwoCalls /\ watch.away /\ lastCall.vector = watch.vector /\ lastCall.glob = watch.glob)
        => (lastCall.ret = watch.ret /\ ~lastCall.built)

\* C3: a request served under global state A is served, after the global state has been
\* changed away from A and back, with the same pipeline and without creating one; and no
\* step removes or replaces a partition, a sub-cache or an entry.
PartitionIsolation == []ServedAgain /\ [][EntriesPreserved]_vars

PartitionIsolationWitness ==
    /\ TwoCalls
    /\ watch.away
    /\ lastCall.vector = watch.vector
    /\ lastCall.glob = watch.glob
    /\ Cardinality(pipePartitions) >= 2

\* C4: the pipeline getPipeline returns was compiled with the write mask, target format,
\* sample count, depth/stencil format and stencil state that _createPipeline would use
\* under the global state of the call (stated for calls after a render target was set).
ReturnedPipelineValid ==
    (lastCall.made /\ pipelines[lastCall.ret].global.format # "undefined")
        => pipelines[lastCall.ret].global = GlobalDescriptor

\* the global key of the fields as they are
CurrentGlobalKey ==
    getGlobalStateKey(stencilMode, multisampleCount, colorMask, depthStencilAttachment, hdr)

\* the program key of a getPipeline call
ProgKeyOf(call) ==
    getProgKey(call.vector.geometryLayout, call.vector.program, call.vector.topology)

\* _pipeRT is the partition under the current global key, and the sub-cache
\* the getPipeline call just made consulted is the one under its program key
\* in that partition
SubCacheConsulted ==
    /\ pipeRT = CurrentGlobalKey
    /\ prevPipeKey = CurrentGlobalKey
    /\ pipeRT \in pipePartitions
    /\ lastCall.made
           => /\ pipeCache = <<CurrentGlobalKey, ProgKeyOf(lastCall)>>
              /\ pipeCache \in pipeSubCaches
              /\ prevProgKey = ProgKeyOf(lastCall)

\* a setter step that changes the global key forgets the program key of the
\* previous call, so that the next getPipeline selects again
SubCacheStep == (prevPipeKey' # prevPipeKey) => (prevProgKey' = NoKey)

\* C27: at every getPipeline lookup the sub-cache consulted is the one stored
\* under the request's program key inside the partition under the current
\* global key; after any setter that changes the global key, the next
\* getPipeline selects the sub-cache from the new partition again, even when its
\* program key equals that of the previous call.
SubCacheOfCurrentPartition == []SubCacheConsulted /\ [][SubCacheStep]_vars

\* a getPipeline call with the program key of the watched call was made under
\* another global key than the watched call, and consulted the other partition
SubCacheOfCurrentPartitionWitness ==
    /\ TwoCalls
    /\ ProgKeyOf(lastCall) = ProgKeyOf(watch)
    /\ lastCall.glob = GlobalValues
    /\ getGlobalStateKey(watch.glob.stencilMode, watch.glob.multisampleCount,
                         watch.glob.colorMask, watch.glob.depthStencilAttachment,
                         watch.glob.hdr) # CurrentGlobalKey
    /\ pipeCache = <<CurrentGlobalKey, ProgKeyOf(lastCall)>>
    /\ prevProgKey = ProgKeyOf(lastCall)

(***************************************************************************)
(* Key packing probes: one packing function applied to one argument tuple. *)
(***************************************************************************)
InitKeys ==
    /\ probe = NoProbe
    /\ stencilMode = DISABLED
    /\ colorMask = 15
    /\ multisampleCount = 1
    /\ depthStencilAttachment = 0
    /\ hdr = HdrUnset
    /\ depthCompareKey = 0
    /\ prevProgKey = NoKey
    /\ prevPipeKey = InitialGlobalKey
    /\ pipeRT = InitialGlobalKey
    /\ pipeCache = <<NoKey, NoKey>>
    /\ pipeStateCaches = <<>>
    /\ pipePartitions = {InitialGlobalKey}
    /\ pipeSubCaches = {}
    /\ pipelines = <<>>
    /\ layoutKey = [g \in Geoms |-> 0]
    /\ bufferLayoutsCache = <<>>
    /\ bindingNamesCache = <<>>
    /\ computeCache = [k \in ComputeKeys |-> 0]
    /\ env = [setters |-> Quiet, variant |-> "blend"]
    /\ lastCall = NoCall
    /\ watch = NoWatch
    /\ requested = {}
    /\ texturePool = <<>>
    /\ poolKeyHash = <<>>
    /\ screenWidth = 0
    /\ screenHeight = 0
    /\ pixelsWidth = 0
    /\ pixelsHeight = 0
    /\ screenThreshold = 512
    /\ enableFullScreen = FALSE
    /\ textures = <<>>
    /\ callers = {}
    /\ held = {}
    /\ hung = FALSE
    /\ poolLast = [op |-> "none"]
    /\ bufferSize = 0
    /\ bufferCount = 0
    /\ offsets = <<>>
    /\ counts = <<>>
    /\ baseInstances = <<>>
    /\ instanceCounts = <<>>
    /\ params = [given |-> FALSE]
    /\ batcher = [sizes |-> {}, params |-> {}]
    /\ drawLast = [op |-> "none", returned |-> TRUE]
    /\ commandEncoder = Undefined
    /\ renderPassEncoder = Undefined
    /\ computePassEncoder = Undefined
    /\ commandFinished = Undefined
    /\ boundBindGroup = [i \in BoundSlots |-> Undefined]
    /\ boundVertexBuffer = [i \in BoundSlots |-> Undefined]
    /\ boundIndexBuffer = Undefined
    /\ boundPipeline = Undefined
    /\ boundCompute = -1
    /\ sentKey = [i \in BoundSlots |-> NoBinding]
    /\ openPasses = 0
    /\ submittedWork = "none"
    /\ encLast = NoEncoderCall
    /\ uses = NoUses
    /\ resources = [g \in Groups |-> [i \in ResourceSlots |-> Undefined]]
    /\ updateID = [g \in Groups |-> -1]
    /\ groupKeys = [g \in Groups |-> [k \in LayoutKeys |-> NoPair]]
    /\ lastLayout = [g \in Groups |-> -1]
    /\ keyParts = <<>>
    /\ subscribed = [g \in Groups |-> [r \in BindResources |-> 0]]
    /\ resourceIds = [r \in BindResources |-> resourceId(r)]
    /\ destroyedResources = {}
    /\ unreported = [g \in Groups |-> {}]
    /\ edits = NoEdits
    /\ bgLast = NoGroupCall
    /\ gpuSources = [s \in Sources |-> 0]
    /\ textureViewHash = [s \in Sources |-> 0]
    /\ bindGroupHash = {}
    /\ managedTextures = {}
    /\ gpuTextures = <<>>
    /\ sourceWidth = [s \in Sources |-> 1]
    /\ texLast = NoTextureCall

\* the tuples that differ from t in one component
GlobalNeighbours(t) ==
    ({[t EXCEPT !.cMask = v] : v \in 0..15} \cup {[t EXCEPT !.stencil = v] : v \in 0..7}
        \cup {[t EXCEPT !.rt = v] : v \in {0, 1, 3}}
        \cup {[t EXCEPT !.hdrTier = v] : v \in {0, 1, 2}}
        \cup {[t EXCEPT !.ms = v] : v \in {1, 4}}) \ {t}

ProbeGlobalStateKey ==
    /\ probe = NoProbe
    /\ \E t \in GlobalTuples :
         \E u \in GlobalNeighbours(t) :
            probe' = [fn |-> "getGlobalStateKey", args |-> t, key |-> GlobalKeyOf(t),
                      other |-> u, otherKey |-> GlobalKeyOf(u)]
    /\ UNCHANGED <<pipeVars, poolVars, drawVars, texVars, encVars, bgVars>>

ProbeGraphicsStateKey ==
    /\ probe = NoProbe
    /\ \E t \in DrawTuples :
        probe' = [fn |-> "getGraphicsStateKey", args |-> t, key |-> DrawKeyOf(t)]
    /\ UNCHANGED <<pipeVars, poolVars, drawVars, texVars, encVars, bgVars>>

NextKeys == ProbeGlobalStateKey \/ ProbeGraphicsStateKey

SpecKeys == InitKeys /\ [][NextKeys]_vars

(***************************************************************************)
(* Vertex buffer layouts: getPipeline and getBufferNamesToBind on          *)
(* geometries and programs whose attributes match or differ.               *)
(***************************************************************************)
\* the requests of the renderers under observation
LayoutRequests ==
    { {[BaseRequest EXCEPT !.geometry = "g2", !.program = 2],
       [BaseRequest EXCEPT !.geometry = "g2", !.program = 3],
       [BaseRequest EXCEPT !.geometry = "g2", !.program = 3, !.blend = 1]},
      {BaseRequest, [BaseRequest EXCEPT !.geometry = "g3"],
       [BaseRequest EXCEPT !.program = 2]},
      {[BaseRequest EXCEPT !.geometry = "g5"], [BaseRequest EXCEPT !.geometry = "g4"],
       [BaseRequest EXCEPT !.geometry = "g4", !.program = 2],
       [BaseRequest EXCEPT !.geometry = "g5", !.blend = 1]},
      {BaseRequest, [BaseRequest EXCEPT !.data = 0, !.blend = 2^BlendBits],
       [BaseRequest EXCEPT !.data = 2^StateBits]},
      {[BaseRequest EXCEPT !.geometry = "g4"],
       [BaseRequest EXCEPT !.geometry = "g4", !.program = 4]} }

InitLayouts ==
    /\ probe = NoProbe
    /\ stencilMode = DISABLED
    /\ colorMask = 15
    /\ multisampleCount = 1
    /\ depthStencilAttachment = 0
    /\ hdr = HdrUnset
    /\ depthCompareKey = 0
    /\ prevProgKey = NoKey
    /\ prevPipeKey = InitialGlobalKey
    /\ pipeRT = InitialGlobalKey
    /\ pipeCache = <<NoKey, NoKey>>
    /\ pipeStateCaches = <<>>
    /\ pipePartitions = {InitialGlobalKey}
    /\ pipeSubCaches = {}
    /\ pipelines = <<>>
    /\ layoutKey = [g \in Geoms |-> 0]
    /\ bufferLayoutsCache = <<>>
    /\ bindingNamesCache = <<>>
    /\ computeCache = [k \in ComputeKeys |-> 0]
    /\ \E requests \in LayoutRequests :
        env = [setters |-> Quiet, variant |-> "blend", requests |-> requests]
    /\ lastCall = NoCall
    /\ watch = NoWatch
    /\ requested = {}
    /\ texturePool = <<>>
    /\ poolKeyHash = <<>>
    /\ screenWidth = 0
    /\ screenHeight = 0
    /\ pixelsWidth = 0
    /\ pixelsHeight = 0
    /\ screenThreshold = 512
    /\ enableFullScreen = FALSE
    /\ textures = <<>>
    /\ callers = {}
    /\ held = {}
    /\ hung = FALSE
    /\ poolLast = [op |-> "none"]
    /\ bufferSize = 0
    /\ bufferCount = 0
    /\ offsets = <<>>
    /\ counts = <<>>
    /\ baseInstances = <<>>
    /\ instanceCounts = <<>>
    /\ params = [given |-> FALSE]
    /\ batcher = [sizes |-> {}, params |-> {}]
    /\ drawLast = [op |-> "none", returned |-> TRUE]
    /\ commandEncoder = Undefined
    /\ renderPassEncoder = Undefined
    /\ computePassEncoder = Undefined
    /\ commandFinished = Undefined
    /\ boundBindGroup = [i \in BoundSlots |-> Undefined]
    /\ boundVertexBuffer = [i \in BoundSlots |-> Undefined]
    /\ boundIndexBuffer = Undefined
    /\ boundPipeline = Undefined
    /\ boundCompute = -1
    /\ sentKey = [i \in BoundSlots |-> NoBinding]
    /\ openPasses = 0
    /\ submittedWork = "none"
    /\ encLast = NoEncoderCall
    /\ uses = NoUses
    /\ resources = [g \in Groups |-> [i \in ResourceSlots |-> Undefined]]
    /\ updateID = [g \in Groups |-> -1]
    /\ groupKeys = [g \in Groups |-> [k \in LayoutKeys |-> NoPair]]
    /\ lastLayout = [g \in Groups |-> -1]
    /\ keyParts = <<>>
    /\ subscribed = [g \in Groups |-> [r \in BindResources |-> 0]]
    /\ resourceIds = [r \in BindResources |-> resourceId(r)]
    /\ destroyedResources = {}
    /\ unreported = [g \in Groups |-> {}]
    /\ edits = NoEdits
    /\ bgLast = NoGroupCall
    /\ gpuSources = [s \in Sources |-> 0]
    /\ textureViewHash = [s \in Sources |-> 0]
    /\ bindGroupHash = {}
    /\ managedTextures = {}
    /\ gpuTextures = <<>>
    /\ sourceWidth = [s \in Sources |-> 1]
    /\ texLast = NoTextureCall

getBufferNamesToBindCall ==
    /\ \E req \in Requests :
        \E keys \in {ensureGeometryLayoutKey(layoutKey, req.geometry)} :
            \E key \in {layoutsKey(keys[req.geometry], req.program)} :
                \E made \in {createVertexBufferLayouts(keys[req.geometry], req.geometry,
                                                       req.program)} :
                    /\ layoutKey' = keys
                    /\ bufferLayoutsCache' = IF key \in DOMAIN bindingNamesCache
                                             THEN bufferLayoutsCache ELSE made.layouts
                    /\ bindingNamesCache' = IF key \in DOMAIN bindingNamesCache
                                            THEN bindingNamesCache ELSE made.names
                    /\ probe' = [fn |-> "getBufferNamesToBind", geometry |-> req.geometry,
                                 program |-> req.program,
                                 ret |-> IF key \in DOMAIN bindingNamesCache
                                         THEN bindingNamesCache[key] ELSE made.names[key],
                                 computed |-> key \notin DOMAIN bindingNamesCache]
                    /\ lastCall' = NoCall
    /\ UNCHANGED <<stencilMode, colorMask, multisampleCount, depthStencilAttachment, hdr,
                   depthCompareKey, prevProgKey, prevPipeKey, pipeRT, pipeCache,
                   pipeStateCaches, pipePartitions, pipeSubCaches, pipelines, env,
                   computeCache, watch, requested, poolVars, drawVars, texVars, encVars, bgVars>>

NextLayouts == getPipeline \/ getBufferNamesToBindCall

SpecLayouts == InitLayouts /\ [][NextLayouts]_vars

\* the names of the attributes of a sequence
Names(attributes) == {attributes[i].name : i \in DOMAIN attributes}

\* the program declares an attribute the geometry lacks, or an attribute of
\* the geometry has a divisor other than 1
Mismatched(g, program) ==
    \/ Names(ProgramAttributes(program)) \ Names(GeomAttributes(g)) # {}
    \/ \E i \in DOMAIN GeomAttributes(g) : GeomAttributes(g)[i].divisor # 1

\* the attributes of a layout as <<shader location, offset, format>>
LayoutAttributes(layout) ==
    UNION {{<<layout[i].attributes[j].shaderLocation, layout[i].attributes[j].offset,
              layout[i].attributes[j].format>> : j \in DOMAIN layout[i].attributes} :
           i \in DOMAIN layout}

\* the attributes present in both the geometry and the program
SharedAttributes(g, program) ==
    {<<q[2].location, q[1].offset, q[1].format>> :
        q \in {r \in {GeomAttributes(g)[i] : i \in DOMAIN GeomAttributes(g)}
                     \X {ProgramAttributes(program)[i] :
                            i \in DOMAIN ProgramAttributes(program)} :
                  r[1].name = r[2].name}}

\* the getPipeline call just made, on a mismatched pair, returned a pipeline
\* whose vertex buffer layout holds exactly the attributes present in both,
\* and the two layout caches and the pipeline cache hold the pair's entries
MismatchDegraded ==
    (lastCall.made /\ Mismatched(lastCall.request.geometry, lastCall.request.program))
        => LET g == lastCall.request.geometry
               program == lastCall.request.program
               key == layoutsKey(layoutKey[g], program)
           IN  /\ lastCall.ret \in DOMAIN pipelines
               /\ LayoutAttributes(pipelines[lastCall.ret].buffers)
                      = SharedAttributes(g, program)
               /\ \A i \in DOMAIN pipelines[lastCall.ret].buffers :
                      pipelines[lastCall.ret].buffers[i].stepMode \in {"vertex", "instance"}
               /\ key \in DOMAIN bufferLayoutsCache
               /\ key \in DOMAIN bindingNamesCache
               /\ \E d \in DOMAIN pipeStateCaches : pipeStateCaches[d] = lastCall.ret

\* C29: attribute mismatches degrade, they do not fail. When the program
\* declares an attribute the geometry lacks, or a geometry attribute has a
\* divisor other than 1, getPipeline still returns a pipeline, the vertex
\* buffer layout contains exactly the attributes present in both geometry and
\* program, the step rate is 1 per vertex or per instance, and the pipeline and
\* layout caches are populated as for a matching pair.
MismatchDegrades == MismatchDegraded

\* a pipeline was built for a mismatched pair from a layout computed for
\* another pair
MismatchServedFromCache ==
    /\ lastCall.made
    /\ lastCall.built
    /\ lastCall.warned = {}
    /\ Mismatched(lastCall.request.geometry, lastCall.request.program)
    /\ pipelines[lastCall.ret].buffers
           # EntriesFrom(lastCall.request.geometry, lastCall.request.program, 0).layout

\* when the layout is computed in the call (no entry under the pair's key),
\* a mismatched pair gets its pipeline, a warning, the layout of exactly the
\* shared attributes and the cache entries
ComputedMismatchDegrades ==
    (lastCall.made /\ lastCall.built /\ lastCall.warned # {}) => MismatchDegraded

\* the buffers of the geometry that have at least one attribute the program
\* declares by name
SharedBuffers(g, program) ==
    {i \in GeomBuffers(g) :
        \E k \in DOMAIN GeomAttributes(g) :
            /\ GeomAttributes(g)[k].buffer_index = i
            /\ GeomAttributes(g)[k].name \in Names(ProgramAttributes(program))}

\* the members of a set of numbers, each once, in increasing order
Increasing(set) ==
    CHOOSE seq \in [1..Cardinality(set) -> set] :
        \A i, j \in 1..Cardinality(set) : i < j => seq[i] < seq[j]

\* the slot list getBufferNamesToBind returned is the one of its pair
NamesCoherent ==
    (probe.fn = "getBufferNamesToBind")
        => probe.ret = Increasing(SharedBuffers(probe.geometry, probe.program))

\* the layout of the pipeline getPipeline built is the one of its pair
LayoutCoherent ==
    (lastCall.made /\ lastCall.built)
        => /\ pipelines[lastCall.ret].buffers
                  = EntriesFrom(lastCall.request.geometry, lastCall.request.program, 0).layout
           /\ LayoutAttributes(pipelines[lastCall.ret].buffers)
                  = SharedAttributes(lastCall.request.geometry, lastCall.request.program)

\* C36: cached vertex-buffer layouts are coherent. For every geometry and
\* program, the buffer-slot list returned by getBufferNamesToBind and the
\* layout used by getPipeline, also when served from the cache, equal what a
\* fresh computation for that pair produces (the buffers with at least one
\* attribute the program declares by name, each once, in increasing buffer
\* index): two pairs with different layouts never share a cache entry.
CachedLayoutsCoherent == NamesCoherent /\ LayoutCoherent

\* getBufferNamesToBind has returned, from the cache, the slots of another pair
StaleBufferNames ==
    /\ probe.fn = "getBufferNamesToBind"
    /\ ~probe.computed
    /\ probe.ret # Increasing(SharedBuffers(probe.geometry, probe.program))
    /\ Warnings(probe.geometry, probe.program) = {}

\* what a call computes itself is the slot list and the layout of its pair
ComputedLayoutsCoherent ==
    /\ (probe.fn = "getBufferNamesToBind" /\ probe.computed)
          => probe.ret = Increasing(SharedBuffers(probe.geometry, probe.program))
    /\ (lastCall.made /\ lastCall.built /\ ~lastCall.layoutHit)
          => /\ pipelines[lastCall.ret].buffers
                    = EntriesFrom(lastCall.request.geometry, lastCall.request.program,
                                  0).layout
             /\ LayoutAttributes(pipelines[lastCall.ret].buffers)
                    = SharedAttributes(lastCall.request.geometry,
                                       lastCall.request.program)

\* the values the call packs fit the bit widths declared for them
InDeclaredWidths(vector) ==
    /\ vector.blend < 2^BlendBits
    /\ vector.data < 2^StateBits
    /\ vector.depthCompare < 2^DepthCompareBits
    /\ vector.customId < 2^CustomIdBits
    /\ vector.topology < 2^3
    /\ vector.program < 2^10

\* C31: out-of-range sub-keys are rejected, not packed. A getPipeline call
\* that is given a value above its declared bit width (a blend mode id above
\* 31, a state value above 127) fails and inserts nothing into the cache: no
\* call with such a value returns a pipeline, and no cache entry exists for it.
OutOfRangeRejected ==
    lastCall.made => InDeclaredWidths(lastCall.vector)

\* a call with a value above its width is served the pipeline that was built
\* for another tuple
OutOfRangeAliased ==
    /\ lastCall.made
    /\ ~InDeclaredWidths(lastCall.vector)
    /\ ~lastCall.built
    /\ lastCall.fresh

(***************************************************************************)
(* Compute pipelines: getComputePipeline among the setters and getPipeline. *)
(***************************************************************************)
\* compute pipelines the device creates in one run
MaxComputePipelines == 2

\* the compute pipelines the device has created
ComputeCreated(cache) ==
    CHOOSE n \in 0..(MaxComputePipelines + 1) :
        /\ \A k \in ComputeKeys : cache[k] <= n
        /\ n = 0 \/ \E k \in ComputeKeys : cache[k] = n

\* getComputePipeline that does not look into the cache
getComputePipelineFresh(cache, key) ==
    [cache |-> [cache EXCEPT ![key] = ComputeCreated(cache) + 1],
     ret |-> ComputeCreated(cache) + 1, built |-> TRUE]

\* getComputePipeline(program) with key = program._layoutKey: _computeCache
\* after the call and the pipeline returned
getComputePipeline(cache, key) ==
    IF cache[key] # 0
    THEN [cache |-> cache, ret |-> cache[key], built |-> FALSE]
    ELSE [cache |-> [cache EXCEPT ![key] = ComputeCreated(cache) + 1],
          ret |-> ComputeCreated(cache) + 1, built |-> TRUE]

\* the renderers under observation
ComputeRenderers ==
    { [setters |-> [Quiet EXCEPT !.colorMasks = {15, 5}], variant |-> "program"],
      [setters |-> [Quiet EXCEPT !.sampleCounts = {1, 4}], variant |-> "blend"],
      [setters |-> [Quiet EXCEPT !.stencilModes = {DISABLED, RENDERING_MASK_ADD}],
       variant |-> "data"],
      [setters |-> [Quiet EXCEPT !.depthCompareKeys = {0, 2}, !.renderTargets = {RtDepth}],
       variant |-> "blend"] }

InitCompute ==
    /\ probe = NoProbe
    /\ stencilMode = DISABLED
    /\ colorMask = 15
    /\ multisampleCount = 1
    /\ depthStencilAttachment = 0
    /\ hdr = HdrUnset
    /\ depthCompareKey = 0
    /\ prevProgKey = NoKey
    /\ prevPipeKey = InitialGlobalKey
    /\ pipeRT = InitialGlobalKey
    /\ pipeCache = <<NoKey, NoKey>>
    /\ pipeStateCaches = <<>>
    /\ pipePartitions = {InitialGlobalKey}
    /\ pipeSubCaches = {}
    /\ pipelines = <<>>
    /\ layoutKey = [g \in Geoms |-> 0]
    /\ bufferLayoutsCache = <<>>
    /\ bindingNamesCache = <<>>
    /\ computeCache = [k \in ComputeKeys |-> 0]
    /\ env \in ComputeRenderers
    /\ lastCall = NoCall
    /\ watch = NoWatch
    /\ requested = {}
    /\ texturePool = <<>>
    /\ poolKeyHash = <<>>
    /\ screenWidth = 0
    /\ screenHeight = 0
    /\ pixelsWidth = 0
    /\ pixelsHeight = 0
    /\ screenThreshold = 512
    /\ enableFullScreen = FALSE
    /\ textures = <<>>
    /\ callers = {}
    /\ held = {}
    /\ hung = FALSE
    /\ poolLast = [op |-> "none"]
    /\ bufferSize = 0
    /\ bufferCount = 0
    /\ offsets = <<>>
    /\ counts = <<>>
    /\ baseInstances = <<>>
    /\ instanceCounts = <<>>
    /\ params = [given |-> FALSE]
    /\ batcher = [sizes |-> {}, params |-> {}]
    /\ drawLast = [op |-> "none", returned |-> TRUE]
    /\ commandEncoder = Undefined
    /\ renderPassEncoder = Undefined
    /\ computePassEncoder = Undefined
    /\ commandFinished = Undefined
    /\ boundBindGroup = [i \in BoundSlots |-> Undefined]
    /\ boundVertexBuffer = [i \in BoundSlots |-> Undefined]
    /\ boundIndexBuffer = Undefined
    /\ boundPipeline = Undefined
    /\ boundCompute = -1
    /\ sentKey = [i \in BoundSlots |-> NoBinding]
    /\ openPasses = 0
    /\ submittedWork = "none"
    /\ encLast = NoEncoderCall
    /\ uses = NoUses
    /\ resources = [g \in Groups |-> [i \in ResourceSlots |-> Undefined]]
    /\ updateID = [g \in Groups |-> -1]
    /\ groupKeys = [g \in Groups |-> [k \in LayoutKeys |-> NoPair]]
    /\ lastLayout = [g \in Groups |-> -1]
    /\ keyParts = <<>>
    /\ subscribed = [g \in Groups |-> [r \in BindResources |-> 0]]
    /\ resourceIds = [r \in BindResources |-> resourceId(r)]
    /\ destroyedResources = {}
    /\ unreported = [g \in Groups |-> {}]
    /\ edits = NoEdits
    /\ bgLast = NoGroupCall
    /\ gpuSources = [s \in Sources |-> 0]
    /\ textureViewHash = [s \in Sources |-> 0]
    /\ bindGroupHash = {}
    /\ managedTextures = {}
    /\ gpuTextures = <<>>
    /\ sourceWidth = [s \in Sources |-> 1]
    /\ texLast = NoTextureCall

getComputePipelineCall ==
    /\ \E key \in ComputeKeys :
        \E r \in {getComputePipeline(computeCache, key)} :
            /\ r.ret <= MaxComputePipelines
            /\ computeCache' = r.cache
            /\ probe' = [fn |-> "getComputePipeline", key |-> key, ret |-> r.ret,
                         built |-> r.built]
    /\ UNCHANGED <<stencilMode, colorMask, multisampleCount, depthStencilAttachment, hdr,
                   depthCompareKey, prevProgKey, prevPipeKey, pipeRT, pipeCache,
                   pipeStateCaches, pipePartitions, pipeSubCaches, pipelines, layoutKey,
                   bufferLayoutsCache, bindingNamesCache, env, lastCall, watch,
                   requested, poolVars, drawVars, texVars, encVars, bgVars>>

NextCompute ==
    \/ setMultisampleCount
    \/ setRenderTarget
    \/ setColorMask
    \/ setDepthCompareKey
    \/ setStencilMode
    \/ getPipeline
    \/ getComputePipelineCall

SpecCompute == InitCompute /\ [][NextCompute]_vars

\* the getComputePipeline call just made returned the pipeline the cache
\* holds under its key
ComputeServed ==
    (probe.fn = "getComputePipeline")
        => probe.ret # 0 /\ computeCache[probe.key] = probe.ret

\* no step replaces or removes an entry of the compute cache; only a
\* getComputePipeline call adds one, and a call whose key has an entry creates
\* nothing
ComputeStep ==
    /\ \A k \in ComputeKeys : computeCache[k] # 0 => computeCache'[k] = computeCache[k]
    /\ probe' = probe => computeCache' = computeCache
    /\ \A k \in ComputeKeys :
          (probe' # probe /\ probe'.key = k /\ computeCache[k] # 0)
              => ~probe'.built /\ probe'.ret = computeCache[k]

\* C30: compute pipelines are keyed only on the program layout key.
\* getComputePipeline returns the same pipeline for every call with the same
\* program layout key and creates it exactly once, and neither its result nor
\* the compute cache is affected by a global-state setter or a getPipeline call.
ComputeKeyedOnProgram == []ComputeServed /\ [][ComputeStep]_vars

\* a compute pipeline is returned from the cache after the global key has
\* changed and a render pipeline was built
ComputeKeyedOnProgramWitness ==
    /\ probe.fn = "getComputePipeline"
    /\ ~probe.built
    /\ prevPipeKey # InitialGlobalKey
    /\ Len(pipelines) >= 1
    /\ \A k \in ComputeKeys : computeCache[k] # 0

(***************************************************************************)
(* Geometry layout keys: ensureGeometryLayoutKey on geometries with and    *)
(* without proto.                                                          *)
(***************************************************************************)
InitLayoutKeys ==
    /\ probe = NoProbe
    /\ stencilMode = DISABLED
    /\ colorMask = 15
    /\ multisampleCount = 1
    /\ depthStencilAttachment = 0
    /\ hdr = HdrUnset
    /\ depthCompareKey = 0
    /\ prevProgKey = NoKey
    /\ prevPipeKey = InitialGlobalKey
    /\ pipeRT = InitialGlobalKey
    /\ pipeCache = <<NoKey, NoKey>>
    /\ pipeStateCaches = <<>>
    /\ pipePartitions = {InitialGlobalKey}
    /\ pipeSubCaches = {}
    /\ pipelines = <<>>
    /\ layoutKey = [g \in Geoms |-> 0]
    /\ bufferLayoutsCache = <<>>
    /\ bindingNamesCache = <<>>
    /\ computeCache = [k \in ComputeKeys |-> 0]
    /\ env = [setters |-> Quiet, variant |-> "blend"]
    /\ lastCall = NoCall
    /\ watch = NoWatch
    /\ requested = {}
    /\ texturePool = <<>>
    /\ poolKeyHash = <<>>
    /\ screenWidth = 0
    /\ screenHeight = 0
    /\ pixelsWidth = 0
    /\ pixelsHeight = 0
    /\ screenThreshold = 512
    /\ enableFullScreen = FALSE
    /\ textures = <<>>
    /\ callers = {}
    /\ held = {}
    /\ hung = FALSE
    /\ poolLast = [op |-> "none"]
    /\ bufferSize = 0
    /\ bufferCount = 0
    /\ offsets = <<>>
    /\ counts = <<>>
    /\ baseInstances = <<>>
    /\ instanceCounts = <<>>
    /\ params = [given |-> FALSE]
    /\ batcher = [sizes |-> {}, params |-> {}]
    /\ drawLast = [op |-> "none", returned |-> TRUE]
    /\ commandEncoder = Undefined
    /\ renderPassEncoder = Undefined
    /\ computePassEncoder = Undefined
    /\ commandFinished = Undefined
    /\ boundBindGroup = [i \in BoundSlots |-> Undefined]
    /\ boundVertexBuffer = [i \in BoundSlots |-> Undefined]
    /\ boundIndexBuffer = Undefined
    /\ boundPipeline = Undefined
    /\ boundCompute = -1
    /\ sentKey = [i \in BoundSlots |-> NoBinding]
    /\ openPasses = 0
    /\ submittedWork = "none"
    /\ encLast = NoEncoderCall
    /\ uses = NoUses
    /\ resources = [g \in Groups |-> [i \in ResourceSlots |-> Undefined]]
    /\ updateID = [g \in Groups |-> -1]
    /\ groupKeys = [g \in Groups |-> [k \in LayoutKeys |-> NoPair]]
    /\ lastLayout = [g \in Groups |-> -1]
    /\ keyParts = <<>>
    /\ subscribed = [g \in Groups |-> [r \in BindResources |-> 0]]
    /\ resourceIds = [r \in BindResources |-> resourceId(r)]
    /\ destroyedResources = {}
    /\ unreported = [g \in Groups |-> {}]
    /\ edits = NoEdits
    /\ bgLast = NoGroupCall
    /\ gpuSources = [s \in Sources |-> 0]
    /\ textureViewHash = [s \in Sources |-> 0]
    /\ bindGroupHash = {}
    /\ managedTextures = {}
    /\ gpuTextures = <<>>
    /\ sourceWidth = [s \in Sources |-> 1]
    /\ texLast = NoTextureCall

ensureGeometryLayoutKeyCall ==
    /\ \E g \in Geoms :
        \E keys \in {ensureGeometryLayoutKey(layoutKey, g)} :
            /\ layoutKey' = keys
            /\ probe' = [fn |-> "ensureGeometryLayoutKey", geometry |-> g,
                         key |-> keys[g], generated |-> layoutKey[g] = 0]
    /\ UNCHANGED <<stencilMode, colorMask, multisampleCount, depthStencilAttachment, hdr,
                   depthCompareKey, prevProgKey, prevPipeKey, pipeRT, pipeCache,
                   pipeStateCaches, pipePartitions, pipeSubCaches, pipelines, env,
                   bufferLayoutsCache, bindingNamesCache, computeCache,
                   lastCall, watch, requested, poolVars, drawVars, texVars, encVars, bgVars>>

NextLayoutKeys == ensureGeometryLayoutKeyCall

SpecLayoutKeys == InitLayoutKeys /\ [][NextLayoutKeys]_vars

\* every geometry that has a key and a proto has the key of its proto
ProtoKeyShared ==
    \A g \in Geoms :
        (GeomProto(g) \in Geoms /\ layoutKey[g] # 0) => layoutKey[g] = layoutKey[GeomProto(g)]

\* a key once set never changes, and a geometry without key whose proto
\* carries one gets the key of the proto
LayoutKeyStep ==
    /\ \A g \in Geoms : layoutKey[g] # 0 => layoutKey'[g] = layoutKey[g]
    /\ \A g \in Geoms :
          (/\ probe'.fn = "ensureGeometryLayoutKey"
           /\ probe'.geometry = g
           /\ layoutKey[g] = 0
           /\ GeomProto(g) \in Geoms
           /\ layoutKey[GeomProto(g)] # 0)
              => layoutKey'[g] = layoutKey[GeomProto(g)]

\* C28: a geometry's layout key is generated at most once and never changes
\* afterwards; when its proto already carries a key, ensureGeometryLayoutKey
\* gives the geometry that key without generating another, so that
\* geometry._layoutKey equals proto._layoutKey for every geometry sharing that
\* proto.
LayoutKeyFromProto == []ProtoKeyShared /\ [][LayoutKeyStep]_vars

\* a geometry got another key than the one its proto carried
ProtoKeyReplaced ==
    /\ probe.fn = "ensureGeometryLayoutKey"
    /\ probe.generated
    /\ \E g \in Geoms \ {probe.geometry} :
          /\ GeomProto(g) = GeomProto(probe.geometry)
          /\ GeomProto(g) \in Geoms
          /\ layoutKey[g] \notin {0, layoutKey[GeomProto(g)]}

\* what the code keeps: the key of a geometry is the id of its own attribute
\* string, whatever its proto carries, and the key of a geometry that is no
\* proto never changes once set
OwnLayoutKeyStep ==
    /\ \A g \in Geoms :
          layoutKey'[g] # 0 /\ g # "p"
              => layoutKey'[g] = createIdFromString(GeomAttributeString(g))
    /\ \A g \in Geoms \ {"p"} : layoutKey[g] # 0 => layoutKey'[g] = layoutKey[g]

OwnLayoutKeyKept == [][OwnLayoutKeyStep]_vars

\* C5: two global render-target state tuples that differ in a component get different
\* global keys.
GlobalKeyInjective ==
    probe.fn = "getGlobalStateKey" => probe.otherKey # probe.key

\* the fields of a draw-state tuple fit the bits the shifts leave them
InShiftBudget(t) ==
    /\ t.customId < 2^CustomIdBits
    /\ t.depthCompare < 2^DepthCompareBits
    /\ t.state < 2^StateBits
    /\ t.blend < 2^BlendBits

\* the budget of the specification: 8 bits for the blend mode id
InDeclaredBudget(t) ==
    /\ t.depthCompare < 2^DepthCompareBits
    /\ t.state < 2^StateBits
    /\ t.blend < 2^8

\* C6 (as amended): for custom ids of at most 17 bits, depth-compare ids of at most 3 bits,
\* state bits of at most 7 bits and blend mode ids of at most 5 bits, two tuples get the
\* same draw key if and only if they are equal.
DrawKeyInjective ==
    (probe.fn = "getGraphicsStateKey" /\ InShiftBudget(probe.args))
        => \A t \in DrawTuples :
              InShiftBudget(t) => (DrawKeyOf(t) = probe.key <=> t = probe.args)

DrawKeyInjectiveWitness ==
    /\ probe.fn = "getGraphicsStateKey"
    /\ probe.args = [customId |-> 2^CustomIdBits - 1, depthCompare |-> 2^DepthCompareBits - 1,
                     state |-> 2^StateBits - 1, blend |-> 2^BlendBits - 1]
    /\ probe.key = -1

\* C6 (as claimed): the same with blend mode ids of at most 8 bits.
DrawKeyInjectiveDeclared ==
    (probe.fn = "getGraphicsStateKey" /\ InDeclaredBudget(probe.args))
        => \A t \in DrawTuples :
              InDeclaredBudget(t) => (DrawKeyOf(t) = probe.key <=> t = probe.args)

(***************************************************************************)
(* TexturePoolClass: the pool of temporary render textures.                *)
(***************************************************************************)
MaxTextures == 2

screenAlign == 1
screenPadding == 0
DefaultThreshold == 512
\* the frame sizes carry a fraction in units of 10^-7; 1e-6 is EpsilonUnits of them
FractionUnits == 10000000
EpsilonUnits == 10

RECURSIVE Pow2AtLeast(_, _)
Pow2AtLeast(v, p) == IF p >= v THEN p ELSE Pow2AtLeast(v, 2 * p)

\* nextPow2 of maths: the smallest power of two that is at least v (1 for 0)
nextPow2(v) == Pow2AtLeast(v, 1)

\* Math.ceil((frame * resolution) - 1e-6), for a frame size [whole, micro]
pixelSize(frame, resolution) ==
    LET fraction == frame.micro * resolution
    IN  frame.whole * resolution
            + (IF fraction <= EpsilonUnits THEN 0
               ELSE (fraction - EpsilonUnits + FractionUnits - 1) \div FractionUnits)

\* Math.ceil(screen / screenSizeFactor) with screenSizeFactor = 1.4: the double 1.4 is
\* below 7/5, so a quotient that is a whole number q rounds up to the next double, and
\* to q + 1, when q lies in the upper eighth of its binade.
shrinkOnce(screen) ==
    LET q == (5 * screen + 6) \div 7
    IN  IF screen % 7 = 0 /\ q > 0 /\ nextPow2(q) # q /\ 8 * q > 7 * nextPow2(q)
        THEN q + 1 ELSE q

Diverges == -1

\* one step further than the loop of getOptimalTexture goes
shrinkScreenTooFar(target, screen) == shrinkOnce(screen)

\* the loop of getOptimalTexture left out: the screen size as it is
shrinkScreenNever(target, screen) == screen

RECURSIVE shrinkScreen(_, _)
\* while (target <= Math.ceil(screen / factor)) screen = Math.ceil(screen / factor);
\* Diverges when the loop never ends (the screen size stops shrinking).
shrinkScreen(target, screen) ==
    IF target <= shrinkOnce(screen)
    THEN IF shrinkOnce(screen) = screen THEN Diverges
         ELSE shrinkScreen(target, shrinkOnce(screen))
    ELSE screen

isPow2RegimeAlways(ignoreScreen, width, height) == TRUE

\* the test that selects the power-of-two regime
isPow2Regime(ignoreScreen, width, height) ==
    \/ ignoreScreen
    \/ width <= screenThreshold
    \/ height <= screenThreshold
    \/ width > pixelsWidth
    \/ height > pixelsHeight

\* sign * ((width << 16) + (height << 2) + (antialias ? 1 : 0) + (hdr ? 2 : 0))
poolKey(sign, width, height, antialias, isHdr) ==
    sign * (Shl(width, 16) + Shl(height, 2) + (IF antialias THEN 1 ELSE 0)
                + (IF isHdr THEN 2 ELSE 0))

\* createTexture: a texture source of the given pixel size
createTexture(pixelWidth, pixelHeight, antialias, isHdr) ==
    [allocWidth |-> pixelWidth, allocHeight |-> pixelHeight, antialias |-> antialias,
     format |-> IF isHdr THEN "rgba16float" ELSE "default", destroyed |-> FALSE]

Whole(n) == [whole |-> n, micro |-> 0]

PoolRequest(w, h, res, aa, isHdr, ign) ==
    [frameWidth |-> w, frameHeight |-> h, resolution |-> res, antialias |-> aa,
     hdr |-> isHdr, ignoreScreen |-> ign]

\* the filters and plugins under observation: the threshold they configure and the
\* requests they make
Filters ==
    { [screenThreshold |-> DefaultThreshold,
       requests |-> { PoolRequest(Whole(300), Whole(300), 1, FALSE, FALSE, FALSE),
                      PoolRequest(Whole(600), Whole(600), 1, FALSE, FALSE, FALSE),
                      PoolRequest(Whole(600), Whole(600), 1, FALSE, FALSE, TRUE) }],
      [screenThreshold |-> DefaultThreshold,
       requests |-> { PoolRequest(Whole(10000), Whole(10000), 1, FALSE, FALSE, FALSE),
                      PoolRequest([whole |-> 256, micro |-> 4], Whole(256), 1,
                                  FALSE, FALSE, FALSE),
                      PoolRequest(Whole(350), Whole(300), 2, TRUE, TRUE, FALSE) }],
      [screenThreshold |-> 2,
       requests |-> { PoolRequest(Whole(300), Whole(300), 1, FALSE, FALSE, FALSE),
                      PoolRequest(Whole(600), Whole(600), 1, FALSE, TRUE, FALSE),
                      PoolRequest(Whole(3), Whole(3), 1, FALSE, FALSE, FALSE) }] }

ScreenSizes == { [width |-> 800, height |-> 600], [width |-> 1920, height |-> 1080] }

NoBuckets == [k \in {} |-> <<>>]

\* the textures on the free lists of the buckets ks
Pooled(pool, ks) == UNION {{pool[k][i] : i \in 1..Len(pool[k])} : k \in ks}

\* texture.destroy(true) of every texture in uids
Destroyed(srcs, uids) ==
    [i \in 1..Len(srcs) |-> IF i \in uids THEN [srcs[i] EXCEPT !.destroyed = TRUE] ELSE srcs[i]]

\* the texture after getOptimalTexture has fitted it to the request
Fitted(texture, width, height, req) ==
    [allocWidth |-> texture.allocWidth, allocHeight |-> texture.allocHeight,
     antialias |-> texture.antialias, format |-> texture.format,
     destroyed |-> texture.destroyed,
     resolution |-> req.resolution, pixelWidth |-> width, pixelHeight |-> height,
     frameWidth |-> req.frameWidth, frameHeight |-> req.frameHeight]

InitPool ==
    /\ probe = NoProbe
    /\ stencilMode = DISABLED
    /\ colorMask = 15
    /\ multisampleCount = 1
    /\ depthStencilAttachment = 0
    /\ hdr = HdrUnset
    /\ depthCompareKey = 0
    /\ prevProgKey = NoKey
    /\ prevPipeKey = InitialGlobalKey
    /\ pipeRT = InitialGlobalKey
    /\ pipeCache = <<NoKey, NoKey>>
    /\ pipeStateCaches = <<>>
    /\ pipePartitions = {InitialGlobalKey}
    /\ pipeSubCaches = {}
    /\ pipelines = <<>>
    /\ layoutKey = [g \in Geoms |-> 0]
    /\ bufferLayoutsCache = <<>>
    /\ bindingNamesCache = <<>>
    /\ computeCache = [k \in ComputeKeys |-> 0]
    /\ env = [setters |-> Quiet, variant |-> "blend"]
    /\ lastCall = NoCall
    /\ watch = NoWatch
    /\ requested = {}
    /\ texturePool = NoBuckets
    /\ poolKeyHash = <<>>
    /\ screenWidth = 0
    /\ screenHeight = 0
    /\ pixelsWidth = 0
    /\ pixelsHeight = 0
    /\ \E filters \in Filters :
        /\ screenThreshold = filters.screenThreshold
        /\ callers = filters.requests
    /\ enableFullScreen = FALSE
    /\ textures = <<>>
    /\ held = {}
    /\ hung = FALSE
    /\ poolLast = [op |-> "none"]
    /\ bufferSize = 0
    /\ bufferCount = 0
    /\ offsets = <<>>
    /\ counts = <<>>
    /\ baseInstances = <<>>
    /\ instanceCounts = <<>>
    /\ params = [given |-> FALSE]
    /\ batcher = [sizes |-> {}, params |-> {}]
    /\ drawLast = [op |-> "none", returned |-> TRUE]
    /\ commandEncoder = Undefined
    /\ renderPassEncoder = Undefined
    /\ computePassEncoder = Undefined
    /\ commandFinished = Undefined
    /\ boundBindGroup = [i \in BoundSlots |-> Undefined]
    /\ boundVertexBuffer = [i \in BoundSlots |-> Undefined]
    /\ boundIndexBuffer = Undefined
    /\ boundPipeline = Undefined
    /\ boundCompute = -1
    /\ sentKey = [i \in BoundSlots |-> NoBinding]
    /\ openPasses = 0
    /\ submittedWork = "none"
    /\ encLast = NoEncoderCall
    /\ uses = NoUses
    /\ resources = [g \in Groups |-> [i \in ResourceSlots |-> Undefined]]
    /\ updateID = [g \in Groups |-> -1]
    /\ groupKeys = [g \in Groups |-> [k \in LayoutKeys |-> NoPair]]
    /\ lastLayout = [g \in Groups |-> -1]
    /\ keyParts = <<>>
    /\ subscribed = [g \in Groups |-> [r \in BindResources |-> 0]]
    /\ resourceIds = [r \in BindResources |-> resourceId(r)]
    /\ destroyedResources = {}
    /\ unreported = [g \in Groups |-> {}]
    /\ edits = NoEdits
    /\ bgLast = NoGroupCall
    /\ gpuSources = [s \in Sources |-> 0]
    /\ textureViewHash = [s \in Sources |-> 0]
    /\ bindGroupHash = {}
    /\ managedTextures = {}
    /\ gpuTextures = <<>>
    /\ sourceWidth = [s \in Sources |-> 1]
    /\ texLast = NoTextureCall

\* a read of the last texture that leaves it on the free list
popRemainderKeeps(arr) == arr

\* the free list after this._texturePool[key].pop()
popRemainder(arr) == SubSeq(arr, 1, Len(arr) - 1)

PoolFrame ==
    UNCHANGED <<keyVars, pipeVars, drawVars, texVars, encVars, bgVars, screenThreshold, enableFullScreen, callers>>

getOptimalTexture ==
    /\ ~hung
    /\ \E req \in callers :
       \E width \in {pixelSize(req.frameWidth, req.resolution)},
          height \in {pixelSize(req.frameHeight, req.resolution)} :
       \E pow2 \in {isPow2Regime(req.ignoreScreen, width, height)} :
       \E w \in {IF pow2 THEN nextPow2(width) ELSE shrinkScreen(width, pixelsWidth)},
          h \in {IF pow2 THEN nextPow2(height) ELSE shrinkScreen(height, pixelsHeight)} :
          IF w = Diverges \/ h = Diverges
          THEN /\ hung' = TRUE
               /\ poolLast' = [op |-> "getOptimalTexture", returned |-> FALSE, req |-> req]
               /\ UNCHANGED <<texturePool, poolKeyHash, textures, held>>
          ELSE \E key \in {poolKey(IF pow2 THEN 1 ELSE -1, w, h, req.antialias, req.hdr)} :
               LET arr == IF key \in DOMAIN texturePool THEN texturePool[key] ELSE <<>>
                   reuse == Len(arr) > 0
                   uid == IF reuse THEN arr[Len(arr)] ELSE Len(textures) + 1
                   texture == IF reuse THEN textures[uid]
                              ELSE createTexture(w, h, req.antialias, req.hdr)
                   again == /\ poolLast.op = "returnTexture"
                            /\ poolLast.checkedOut
                            /\ poolLast.req = req
               IN  /\ reuse \/ Len(textures) < MaxTextures
                   /\ texturePool' =
                        [k \in DOMAIN texturePool \cup {key} |->
                            IF k # key THEN texturePool[k]
                            ELSE IF reuse THEN popRemainder(arr) ELSE <<>>]
                   /\ textures' =
                        [i \in 1..(IF reuse THEN Len(textures) ELSE Len(textures) + 1) |->
                            IF i = uid THEN Fitted(texture, w, h, req) ELSE textures[i]]
                   /\ poolKeyHash' =
                        [i \in DOMAIN poolKeyHash \cup {uid} |->
                            IF i = uid THEN key ELSE poolKeyHash[i]]
                   /\ held' = held \cup {uid}
                   /\ poolLast' = [op |-> "getOptimalTexture", returned |-> TRUE, req |-> req,
                                   width |-> width, height |-> height, key |-> key,
                                   pow2 |-> pow2, w |-> w, h |-> h,
                                   ret |-> uid, created |-> ~reuse, again |-> again,
                                   first |-> IF again THEN poolLast.texture ELSE 0]
                   /\ hung' = hung
    /\ UNCHANGED <<screenWidth, screenHeight, pixelsWidth, pixelsHeight>>
    /\ PoolFrame

pushTextureLost(arr, uid) == arr

\* arr.push(renderTexture)
pushTexture(arr, uid) == Append(arr, uid)

destroyOnReturnAlways(hasBucket) == TRUE

\* the else branch of returnTexture: renderTexture.destroy(true) when there is no bucket
destroyOnReturn(hasBucket) == ~hasBucket

\* a texture the caller made itself: no getOptimalTexture recorded a key for it
ForeignTexture ==
    Fitted(createTexture(64, 64, FALSE, FALSE), 64, 64,
           PoolRequest(Whole(64), Whole(64), 1, FALSE, FALSE, FALSE))

\* returnTexture of a texture the caller holds, or of one the caller made itself
returnTexture ==
    /\ ~hung
    /\ \E uid \in held \cup {i \in {Len(textures) + 1} : Len(textures) < MaxTextures} :
       LET all == IF uid <= Len(textures) THEN textures ELSE Append(textures, ForeignTexture)
           hasBucket == uid \in DOMAIN poolKeyHash /\ poolKeyHash[uid] \in DOMAIN texturePool
           checkedOut == /\ poolLast.op = "getOptimalTexture"
                         /\ poolLast.returned
                         /\ poolLast.ret = uid
       IN  /\ texturePool' = IF hasBucket
                             THEN [texturePool EXCEPT
                                      ![poolKeyHash[uid]] = pushTexture(@, uid)]
                             ELSE texturePool
           /\ textures' = IF destroyOnReturn(hasBucket) THEN Destroyed(all, {uid}) ELSE all
           /\ held' = held \ {uid}
           /\ poolLast' = IF checkedOut
                          THEN [op |-> "returnTexture", texture |-> uid, checkedOut |-> TRUE,
                                req |-> poolLast.req]
                          ELSE [op |-> "returnTexture", texture |-> uid, checkedOut |-> FALSE]
    /\ UNCHANGED <<poolKeyHash, screenWidth, screenHeight, pixelsWidth, pixelsHeight, hung>>
    /\ PoolFrame

clear ==
    /\ ~hung
    /\ \E destroyTextures \in BOOLEAN :
        /\ textures' = IF destroyTextures
                       THEN Destroyed(textures, Pooled(texturePool, DOMAIN texturePool))
                       ELSE textures
        /\ poolLast' = [op |-> "clear", destroyTextures |-> destroyTextures]
    /\ texturePool' = NoBuckets
    /\ UNCHANGED <<poolKeyHash, screenWidth, screenHeight, pixelsWidth, pixelsHeight, held, hung>>
    /\ PoolFrame

purgedKeysAll(pool) == DOMAIN pool

\* the buckets setScreenSize deletes: those with Number(key) < 0
purgedKeys(pool) == {k \in DOMAIN pool : k < 0}

setScreenSize ==
    /\ ~hung
    /\ \E size \in ScreenSizes :
        /\ poolLast' = [op |-> "setScreenSize", size |-> size,
                        purged |-> IF (size.width # screenWidth \/ size.height # screenHeight)
                                       /\ pixelsWidth > 0
                                   THEN Pooled(texturePool, purgedKeys(texturePool)) ELSE {}]
        /\ IF size.width = screenWidth /\ size.height = screenHeight
           THEN UNCHANGED <<texturePool, textures, screenWidth, screenHeight,
                            pixelsWidth, pixelsHeight>>
           ELSE /\ IF pixelsWidth > 0
                   THEN /\ textures' = Destroyed(textures, Pooled(texturePool, purgedKeys(texturePool)))
                        /\ texturePool' = [k \in DOMAIN texturePool \ purgedKeys(texturePool) |->
                                              texturePool[k]]
                   ELSE UNCHANGED <<texturePool, textures>>
                /\ screenWidth' = size.width
                /\ screenHeight' = size.height
                /\ pixelsWidth' = ((size.width + screenPadding + screenAlign - 1) \div screenAlign)
                                      * screenAlign
                /\ pixelsHeight' = ((size.height + screenPadding + screenAlign - 1) \div screenAlign)
                                      * screenAlign
    /\ UNCHANGED <<poolKeyHash, held, hung>>
    /\ PoolFrame

NextPool == getOptimalTexture \/ returnTexture \/ clear \/ setScreenSize

SpecPool == InitPool /\ [][NextPool]_vars

(***************************************************************************)
(* The texture pool under requests of up to 32768 pixels.                  *)
(***************************************************************************)
\* the callers under observation: the threshold they configure and the requests
\* they make
BucketFilters ==
    { [screenThreshold |-> DefaultThreshold,
       requests |-> { PoolRequest(Whole(1), Whole(20000), 1, FALSE, FALSE, FALSE),
                      PoolRequest(Whole(2), Whole(16384), 1, FALSE, FALSE, FALSE) }],
      [screenThreshold |-> DefaultThreshold,
       requests |-> { PoolRequest(Whole(20000), Whole(300), 1, FALSE, FALSE, FALSE),
                      PoolRequest(Whole(700), Whole(600), 1, TRUE, FALSE, FALSE) }],
      [screenThreshold |-> DefaultThreshold,
       requests |-> { PoolRequest(Whole(600), Whole(600), 1, FALSE, FALSE, FALSE),
                      PoolRequest(Whole(600), Whole(600), 1, FALSE, TRUE, FALSE),
                      PoolRequest(Whole(1000), Whole(600), 1, FALSE, FALSE, FALSE),
                      PoolRequest(Whole(4000), Whole(4000), 2, FALSE, FALSE, TRUE) }] }

InitBuckets ==
    /\ probe = NoProbe
    /\ stencilMode = DISABLED
    /\ colorMask = 15
    /\ multisampleCount = 1
    /\ depthStencilAttachment = 0
    /\ hdr = HdrUnset
    /\ depthCompareKey = 0
    /\ prevProgKey = NoKey
    /\ prevPipeKey = InitialGlobalKey
    /\ pipeRT = InitialGlobalKey
    /\ pipeCache = <<NoKey, NoKey>>
    /\ pipeStateCaches = <<>>
    /\ pipePartitions = {InitialGlobalKey}
    /\ pipeSubCaches = {}
    /\ pipelines = <<>>
    /\ layoutKey = [g \in Geoms |-> 0]
    /\ bufferLayoutsCache = <<>>
    /\ bindingNamesCache = <<>>
    /\ computeCache = [k \in ComputeKeys |-> 0]
    /\ env = [setters |-> Quiet, variant |-> "blend"]
    /\ lastCall = NoCall
    /\ watch = NoWatch
    /\ requested = {}
    /\ texturePool = NoBuckets
    /\ poolKeyHash = <<>>
    /\ screenWidth = 0
    /\ screenHeight = 0
    /\ pixelsWidth = 0
    /\ pixelsHeight = 0
    /\ \E filters \in BucketFilters :
        /\ screenThreshold = filters.screenThreshold
        /\ callers = filters.requests
    /\ enableFullScreen = FALSE
    /\ textures = <<>>
    /\ held = {}
    /\ hung = FALSE
    /\ poolLast = [op |-> "none"]
    /\ bufferSize = 0
    /\ bufferCount = 0
    /\ offsets = <<>>
    /\ counts = <<>>
    /\ baseInstances = <<>>
    /\ instanceCounts = <<>>
    /\ params = [given |-> FALSE]
    /\ batcher = [sizes |-> {}, params |-> {}]
    /\ drawLast = [op |-> "none", returned |-> TRUE]
    /\ commandEncoder = Undefined
    /\ renderPassEncoder = Undefined
    /\ computePassEncoder = Undefined
    /\ commandFinished = Undefined
    /\ boundBindGroup = [i \in BoundSlots |-> Undefined]
    /\ boundVertexBuffer = [i \in BoundSlots |-> Undefined]
    /\ boundIndexBuffer = Undefined
    /\ boundPipeline = Undefined
    /\ boundCompute = -1
    /\ sentKey = [i \in BoundSlots |-> NoBinding]
    /\ openPasses = 0
    /\ submittedWork = "none"
    /\ encLast = NoEncoderCall
    /\ uses = NoUses
    /\ resources = [g \in Groups |-> [i \in ResourceSlots |-> Undefined]]
    /\ updateID = [g \in Groups |-> -1]
    /\ groupKeys = [g \in Groups |-> [k \in LayoutKeys |-> NoPair]]
    /\ lastLayout = [g \in Groups |-> -1]
    /\ keyParts = <<>>
    /\ subscribed = [g \in Groups |-> [r \in BindResources |-> 0]]
    /\ resourceIds = [r \in BindResources |-> resourceId(r)]
    /\ destroyedResources = {}
    /\ unreported = [g \in Groups |-> {}]
    /\ edits = NoEdits
    /\ bgLast = NoGroupCall
    /\ gpuSources = [s \in Sources |-> 0]
    /\ textureViewHash = [s \in Sources |-> 0]
    /\ bindGroupHash = {}
    /\ managedTextures = {}
    /\ gpuTextures = <<>>
    /\ sourceWidth = [s \in Sources |-> 1]
    /\ texLast = NoTextureCall

NextBuckets == getOptimalTexture \/ returnTexture \/ clear \/ setScreenSize

SpecBuckets == InitBuckets /\ [][NextBuckets]_vars

(***************************************************************************)
(* Properties of the texture pool.                                         *)
(***************************************************************************)
Returned == poolLast.op = "getOptimalTexture" /\ poolLast.returned

\* C7: getOptimalTexture, returnTexture of its result and getOptimalTexture with the same
\* arguments, with no other call in between, returns the same texture and creates none.
PoolRoundTrip ==
    (Returned /\ poolLast.again) => (poolLast.ret = poolLast.first /\ ~poolLast.created)

PoolRoundTripWitness ==
    /\ Returned
    /\ poolLast.again
    /\ poolLast.key < 0
    /\ poolLast.ret = poolLast.first

\* Math.ceil(frame * resolution)
ceilSize(frame, resolution) ==
    frame.whole * resolution
        + ((frame.micro * resolution + FractionUnits - 1) \div FractionUnits)

\* the returned texture is at least w by h pixels, as allocated and as fitted
AtLeast(w, h) ==
    /\ textures[poolLast.ret].pixelWidth >= w
    /\ textures[poolLast.ret].pixelHeight >= h
    /\ textures[poolLast.ret].allocWidth >= w
    /\ textures[poolLast.ret].allocHeight >= h

RECURSIVE ShrunkSizes(_)
\* the sizes the shrink loop passes through from a screen size
ShrunkSizes(screen) ==
    IF shrinkOnce(screen) = screen THEN {screen}
    ELSE {screen} \cup ShrunkSizes(shrinkOnce(screen))

\* a request that does not ignore the screen and exceeds the threshold in both dimensions
LargeRequest ==
    /\ Returned
    /\ ~poolLast.req.ignoreScreen
    /\ poolLast.width > screenThreshold
    /\ poolLast.height > screenThreshold

ScreenBucketed ==
    /\ poolLast.key < 0
    /\ textures[poolLast.ret].pixelWidth \in ShrunkSizes(pixelsWidth)
    /\ textures[poolLast.ret].pixelHeight \in ShrunkSizes(pixelsHeight)

ResizeStep ==
    (/\ poolLast'.op = "setScreenSize"
     /\ (poolLast'.size.width # screenWidth \/ poolLast'.size.height # screenHeight))
        => /\ \A k \in DOMAIN texturePool :
                IF k < 0
                THEN /\ k \notin DOMAIN texturePool'
                     /\ \A i \in 1..Len(texturePool[k]) : textures'[texturePool[k][i]].destroyed
                ELSE /\ k \in DOMAIN texturePool'
                     /\ texturePool'[k] = texturePool[k]
           /\ screenWidth' = poolLast'.size.width
           /\ screenHeight' = poolLast'.size.height

NeverServesDestroyed == Returned => ~textures[poolLast.ret].destroyed

RecycleOrDestroyStep ==
    (poolLast'.op = "returnTexture")
        => LET uid == poolLast'.texture
               recorded == uid \in DOMAIN poolKeyHash
           IN  /\ ~hung'
               /\ IF recorded /\ poolKeyHash[uid] \in DOMAIN texturePool
                  THEN /\ texturePool' = [texturePool EXCEPT
                                             ![poolKeyHash[uid]] = Append(@, uid)]
                       /\ textures'[uid].destroyed = textures[uid].destroyed
                  ELSE /\ texturePool' = texturePool
                       /\ textures'[uid].destroyed

\* C11: returnTexture appends the texture to the free list of the bucket recorded for it at
\* checkout, and does not destroy it, if that key is a key of the pool table; otherwise
\* (bucket purged, pool cleared, texture never checked out of this pool) it destroys the
\* texture, adds it to no free list and raises no error.
RecycleOrDestroy == [][RecycleOrDestroyStep]_vars

\* a texture whose bucket setScreenSize purged while it was checked out has been returned
RecycleOrDestroyWitness ==
    /\ poolLast.op = "returnTexture"
    /\ poolLast.texture \in DOMAIN poolKeyHash
    /\ poolKeyHash[poolLast.texture] < 0
    /\ textures[poolLast.texture].destroyed
    /\ \E k \in DOMAIN texturePool : Len(texturePool[k]) > 0

\* the textures on the free lists, with their multiplicity
FreeListEntries ==
    UNION {{<<k, i>> : i \in 1..Len(texturePool[k])} : k \in DOMAIN texturePool}

\* no checked-out texture is on a free list, no texture is on the free lists twice, and
\* no destroyed texture is on a free list
ExclusiveState ==
    /\ held \cap Pooled(texturePool, DOMAIN texturePool) = {}
    /\ \A e, f \in FreeListEntries :
          texturePool[e[1]][e[2]] = texturePool[f[1]][f[2]] => e = f
    /\ \A uid \in Pooled(texturePool, DOMAIN texturePool) : ~textures[uid].destroyed

\* getOptimalTexture returns neither a texture that is checked out nor a destroyed one
CheckoutStep ==
    (poolLast'.op = "getOptimalTexture" /\ poolLast'.returned)
        => /\ poolLast'.ret \notin held
           /\ ~textures'[poolLast'.ret].destroyed

\* C12: when every checked-out texture is returned at most once per checkout, the textures
\* checked out are pairwise distinct and on no free list, and no destroyed texture is on a
\* free list or returned by getOptimalTexture.
ExclusiveCheckout == []ExclusiveState /\ [][CheckoutStep]_vars

\* a recycled texture is checked out while another texture is checked out as well
ExclusiveCheckoutWitness ==
    /\ Returned
    /\ ~poolLast.created
    /\ Cardinality(held) = 2

\* C22: after any call of setScreenSize on a TexturePoolClass, enableFullScreen is true.
FullScreenAfterSetScreenSize == (poolLast.op = "setScreenSize") => enableFullScreen

\* setScreenSize has stored a new screen size
ScreenSizeSet ==
    /\ poolLast.op = "setScreenSize"
    /\ screenWidth = poolLast.size.width
    /\ screenHeight = poolLast.size.height
    /\ pixelsWidth > 0

\* no operation of the pool writes enableFullScreen after the constructor: it keeps the
\* value false
FullScreenNeverEnabled == ~enableFullScreen

\* the key of the call just made has the sign of its regime
SignOfRegime ==
    (Returned /\ poolLast.created)
        => IF poolLast.pow2 THEN poolLast.key > 0 ELSE poolLast.key < 0

\* a texture taken from the free list of a key was created for the rounded
\* width, rounded height, antialias flag and hdr flag of the call
BucketOfOneSize ==
    (Returned /\ ~poolLast.created)
        => /\ textures[poolLast.ret].allocWidth = poolLast.w
           /\ textures[poolLast.ret].allocHeight = poolLast.h
           /\ textures[poolLast.ret].antialias = poolLast.req.antialias
           /\ textures[poolLast.ret].format
                  = (IF poolLast.req.hdr THEN "rgba16float" ELSE "default")

\* C32: bucket keys of the two regimes never collide. For every request a key
\* computed in the power-of-two regime is strictly positive and a key computed
\* in the screen-relative regime is strictly negative (32-bit shifts included),
\* and within one regime two requests get the same key only if their rounded
\* width, rounded height, antialias flag and hdr flag are all equal.
BucketKeysSeparate == SignOfRegime /\ BucketOfOneSize

\* a power-of-two bucket has a negative key
Pow2KeyNegative == Returned /\ poolLast.pow2 /\ poolLast.key < 0

\* a texture is served to a request of another rounded size
BucketShared ==
    /\ Returned
    /\ ~poolLast.created
    /\ textures[poolLast.ret].allocWidth # poolLast.w

\* for rounded sizes of at most 16384 the keys have the sign of their regime and
\* one bucket holds textures of one size, antialias flag and hdr flag
BucketKeysSeparateBelowOverflow ==
    (Returned /\ poolLast.w <= 2^14 /\ poolLast.h <= 2^14
        /\ \A i \in DOMAIN textures :
              textures[i].allocWidth <= 2^14 /\ textures[i].allocHeight <= 2^14)
        => BucketKeysSeparate

\* the least size of the shrink sequence of a screen size that is at least the
\* target: one more step falls below the target
LeastShrunk(size, target, screen) ==
    /\ size \in ShrunkSizes(screen)
    /\ size >= target
    /\ \A other \in ShrunkSizes(screen) : other >= target => other >= size
    /\ shrinkOnce(size) < target

\* the least power of two that is at least the target
LeastPow2(size, target) ==
    /\ \E k \in 0..30 : size = 2^k
    /\ size >= target
    /\ size < 2 * target

\* the call is in the screen-relative regime
ScreenRegime ==
    /\ ~poolLast.req.ignoreScreen
    /\ poolLast.width > screenThreshold
    /\ poolLast.height > screenThreshold
    /\ poolLast.width <= pixelsWidth
    /\ poolLast.height <= pixelsHeight

\* C33: screen-relative sizing. A request enters the screen-relative regime
\* only if ignoreScreen is false, both dimensions exceed screenThreshold and
\* neither exceeds the tracked screen pixel size; each dimension it is given
\* is then the smallest member of the shrink sequence s0 = tracked screen pixel
\* size, s(k+1) = ceil(s(k) / screenSizeFactor) that is at least the requested
\* dimension. Otherwise each dimension is the next power of two.
ScreenRelativeSizing ==
    Returned
        => IF ScreenRegime
           THEN /\ ~poolLast.pow2
                /\ LeastShrunk(textures[poolLast.ret].pixelWidth, poolLast.width,
                               pixelsWidth)
                /\ LeastShrunk(textures[poolLast.ret].pixelHeight, poolLast.height,
                               pixelsHeight)
           ELSE /\ poolLast.pow2
                /\ LeastPow2(textures[poolLast.ret].pixelWidth, poolLast.width)
                /\ LeastPow2(textures[poolLast.ret].pixelHeight, poolLast.height)

\* a request in the screen-relative regime is given a width two shrink steps
\* below the screen width
ScreenRelativeSizingWitness ==
    /\ Returned
    /\ ScreenRegime
    /\ textures[poolLast.ret].pixelWidth < shrinkOnce(pixelsWidth)
    /\ textures[poolLast.ret].pixelHeight < pixelsHeight
    /\ shrinkOnce(textures[poolLast.ret].pixelWidth) < poolLast.width

\* C38: getOptimalTexture always terminates. For every positive request size,
\* every tracked screen size and every screenThreshold >= 0, with the default
\* shrink factor, both shrink loops exit and the call returns.
ShrinkLoopsExit == (poolLast.op = "getOptimalTexture") => poolLast.returned

\* the shrink loops exit for every request of more than 3 pixels in both
\* dimensions
ShrinkLoopsExitAboveThree ==
    (/\ poolLast.op = "getOptimalTexture"
     /\ pixelSize(poolLast.req.frameWidth, poolLast.req.resolution) > 3
     /\ pixelSize(poolLast.req.frameHeight, poolLast.req.resolution) > 3)
        => poolLast.returned

(***************************************************************************)
(* MultiDrawBuffer: the table of draw ranges of one multi-draw submission. *)
(***************************************************************************)
NoParams == [given |-> FALSE]

DrawParams(vertexPerInstance, indexPerInstance, instanced) ==
    [given |-> TRUE, vertexPerInstance |-> vertexPerInstance,
     indexPerInstance |-> indexPerInstance, instanced |-> instanced]

\* the batchers under observation: the capacity and params they construct the buffer
\* with, the sizes they pass to ensureSize, the params they pass to
\* convertInstancesToVertices (NoParams: none), the sizes they pass to resize
Batchers ==
    { [capacity |-> 64, own |-> DrawParams(4, 6, FALSE), sizes |-> {5, 130},
       params |-> {NoParams}, resizes |-> {}],
      [capacity |-> 0, own |-> NoParams, sizes |-> {0, 2},
       params |-> {DrawParams(3, 0, FALSE)}, resizes |-> {}],
      [capacity |-> 1, own |-> DrawParams(3, 0, FALSE), sizes |-> {2, 5},
       params |-> {NoParams, DrawParams(4, 6, TRUE)}, resizes |-> {3}],
      [capacity |-> 3, own |-> NoParams, sizes |-> {5},
       params |-> {NoParams, DrawParams(4, 6, FALSE), DrawParams(3, 0, FALSE)},
       resizes |-> {}],
      [capacity |-> 0, own |-> DrawParams(4, 6, FALSE), sizes |-> {2},
       params |-> {NoParams}, resizes |-> {2, 1}] }

\* the slots the batchers write, and the values they write
WrittenSlots == {0, 1}
BaseValues == {0, 3}
InstanceValues == {1, 2}

\* new Int32Array(sz) / new Uint32Array(sz)
Zeros(sz) == [i \in 0..(sz - 1) |-> 0]

\* the new array of resize: the old entries copied, the other slots zero
Copied(old, sz) == [i \in 0..(sz - 1) |-> IF i \in DOMAIN old THEN old[i] ELSE 0]

\* counts after a resize that leaves the new slots as the constructor of the
\* array made them
resizeCountsNoPrefill(old, oldSize, sz, p) ==
    [i \in 0..(sz - 1) |-> IF i \in DOMAIN old THEN old[i] ELSE 0]

\* counts after resize(sz): the old entries copied, the slots from the old size on
\* prefilled with params.vertexPerInstance
resizeCounts(old, oldSize, sz, p) ==
    [i \in 0..(sz - 1) |->
        IF p.given /\ i >= oldSize THEN p.vertexPerInstance
        ELSE IF i \in DOMAIN old THEN old[i] ELSE 0]

RECURSIVE doubled(_, _)
\* while (sz > new_size) new_size *= 2; Diverges when the loop never ends
doubled(sz, new_size) ==
    IF sz > new_size
    THEN IF 2 * new_size = new_size THEN Diverges ELSE doubled(sz, 2 * new_size)
    ELSE new_size

InitDraw ==
    /\ probe = NoProbe
    /\ stencilMode = DISABLED
    /\ colorMask = 15
    /\ multisampleCount = 1
    /\ depthStencilAttachment = 0
    /\ hdr = HdrUnset
    /\ depthCompareKey = 0
    /\ prevProgKey = NoKey
    /\ prevPipeKey = InitialGlobalKey
    /\ pipeRT = InitialGlobalKey
    /\ pipeCache = <<NoKey, NoKey>>
    /\ pipeStateCaches = <<>>
    /\ pipePartitions = {InitialGlobalKey}
    /\ pipeSubCaches = {}
    /\ pipelines = <<>>
    /\ layoutKey = [g \in Geoms |-> 0]
    /\ bufferLayoutsCache = <<>>
    /\ bindingNamesCache = <<>>
    /\ computeCache = [k \in ComputeKeys |-> 0]
    /\ env = [setters |-> Quiet, variant |-> "blend"]
    /\ lastCall = NoCall
    /\ watch = NoWatch
    /\ requested = {}
    /\ texturePool = <<>>
    /\ poolKeyHash = <<>>
    /\ screenWidth = 0
    /\ screenHeight = 0
    /\ pixelsWidth = 0
    /\ pixelsHeight = 0
    /\ screenThreshold = 512
    /\ enableFullScreen = FALSE
    /\ textures = <<>>
    /\ callers = {}
    /\ held = {}
    /\ hung = FALSE
    /\ poolLast = [op |-> "none"]
    /\ \E b \in Batchers :
        /\ batcher = [sizes |-> b.sizes, params |-> b.params, resizes |-> b.resizes]
        /\ params = b.own
        /\ bufferSize = b.capacity
        /\ counts = resizeCounts(<<>>, 0, b.capacity, b.own)
        /\ offsets = Zeros(b.capacity)
        /\ instanceCounts = Zeros(b.capacity)
        /\ baseInstances = Zeros(b.capacity)
    /\ bufferCount = 0
    /\ drawLast = [op |-> "none", returned |-> TRUE]
    /\ commandEncoder = Undefined
    /\ renderPassEncoder = Undefined
    /\ computePassEncoder = Undefined
    /\ commandFinished = Undefined
    /\ boundBindGroup = [i \in BoundSlots |-> Undefined]
    /\ boundVertexBuffer = [i \in BoundSlots |-> Undefined]
    /\ boundIndexBuffer = Undefined
    /\ boundPipeline = Undefined
    /\ boundCompute = -1
    /\ sentKey = [i \in BoundSlots |-> NoBinding]
    /\ openPasses = 0
    /\ submittedWork = "none"
    /\ encLast = NoEncoderCall
    /\ uses = NoUses
    /\ resources = [g \in Groups |-> [i \in ResourceSlots |-> Undefined]]
    /\ updateID = [g \in Groups |-> -1]
    /\ groupKeys = [g \in Groups |-> [k \in LayoutKeys |-> NoPair]]
    /\ lastLayout = [g \in Groups |-> -1]
    /\ keyParts = <<>>
    /\ subscribed = [g \in Groups |-> [r \in BindResources |-> 0]]
    /\ resourceIds = [r \in BindResources |-> resourceId(r)]
    /\ destroyedResources = {}
    /\ unreported = [g \in Groups |-> {}]
    /\ edits = NoEdits
    /\ bgLast = NoGroupCall
    /\ gpuSources = [s \in Sources |-> 0]
    /\ textureViewHash = [s \in Sources |-> 0]
    /\ bindGroupHash = {}
    /\ managedTextures = {}
    /\ gpuTextures = <<>>
    /\ sourceWidth = [s \in Sources |-> 1]
    /\ texLast = NoTextureCall

DrawFrame == UNCHANGED <<keyVars, pipeVars, poolVars, encVars, texVars, bgVars, params, batcher>>

ensureSize ==
    /\ drawLast.returned
    /\ \E sz \in batcher.sizes :
        IF sz <= bufferSize
        THEN /\ drawLast' = [op |-> "ensureSize", sz |-> sz, returned |-> TRUE]
             /\ UNCHANGED <<bufferSize, offsets, counts, baseInstances, instanceCounts>>
        ELSE \E new_size \in {doubled(sz, bufferSize)} :
             IF new_size = Diverges
             THEN /\ drawLast' = [op |-> "ensureSize", sz |-> sz, returned |-> FALSE]
                  /\ UNCHANGED <<bufferSize, offsets, counts, baseInstances, instanceCounts>>
             ELSE /\ drawLast' = [op |-> "ensureSize", sz |-> sz, returned |-> TRUE]
                  /\ bufferSize' = new_size
                  /\ counts' = resizeCounts(counts, bufferSize, new_size, params)
                  /\ offsets' = Copied(offsets, new_size)
                  /\ instanceCounts' = Copied(instanceCounts, new_size)
                  /\ baseInstances' = Copied(baseInstances, new_size)
    /\ UNCHANGED bufferCount
    /\ DrawFrame

\* resize(sz, copyOldInfo). TypedArray.set throws a RangeError when the old array
\* is longer than the new one: the four arrays are then the new, zeroed ones.
resize ==
    /\ drawLast.returned
    /\ \E sz \in batcher.resizes, copyOldInfo \in BOOLEAN :
        \E threw \in {copyOldInfo /\ bufferSize > sz} :
            /\ bufferSize' = sz
            /\ counts' = IF threw THEN Zeros(sz)
                         ELSE resizeCounts(IF copyOldInfo THEN counts ELSE <<>>,
                                           bufferSize, sz, params)
            /\ offsets' = IF copyOldInfo /\ ~threw THEN Copied(offsets, sz) ELSE Zeros(sz)
            /\ instanceCounts' = IF copyOldInfo /\ ~threw THEN Copied(instanceCounts, sz)
                                 ELSE Zeros(sz)
            /\ baseInstances' = IF copyOldInfo /\ ~threw THEN Copied(baseInstances, sz)
                                ELSE Zeros(sz)
            /\ drawLast' = [op |-> "resize", sz |-> sz, copyOldInfo |-> copyOldInfo,
                            threw |-> threw, oldSize |-> bufferSize, returned |-> TRUE]
    /\ UNCHANGED bufferCount
    /\ DrawFrame

\* a batcher records one draw range: the base instance and instance count of a slot
writeRange ==
    /\ drawLast.returned
    /\ \E j \in WrittenSlots, base \in BaseValues, inst \in InstanceValues :
        /\ j < bufferSize
        /\ baseInstances' = [baseInstances EXCEPT ![j] = base]
        /\ instanceCounts' = [instanceCounts EXCEPT ![j] = inst]
        /\ bufferCount' = IF j + 1 > bufferCount THEN j + 1 ELSE bufferCount
        /\ drawLast' = [op |-> "writeRange", returned |-> TRUE]
    /\ UNCHANGED <<bufferSize, offsets, counts>>
    /\ DrawFrame

\* a batcher sets count, the number of ranges of the submission
setCount ==
    /\ drawLast.returned
    /\ \E c \in WrittenSlots \cup {Cardinality(WrittenSlots), Cardinality(WrittenSlots) + 1} :
        /\ bufferCount' = c
        /\ drawLast' = [op |-> "setCount", returned |-> TRUE]
    /\ UNCHANGED <<bufferSize, offsets, counts, baseInstances, instanceCounts>>
    /\ DrawFrame

\* offsets[j] in indices, not in bytes
convertedOffsetInIndices(off, base, p) ==
    IF p.indexPerInstance > 0 THEN base * p.indexPerInstance
    ELSE base * p.vertexPerInstance

\* offsets[j] of convertInstancesToVertices
convertedOffset(off, base, p) ==
    IF p.indexPerInstance > 0 THEN base * p.indexPerInstance * 4
    ELSE base * p.vertexPerInstance

\* a conversion that scales the count of the slot in place
convertedCountInPlace(cnt, inst, p) ==
    IF p.indexPerInstance > 0 THEN cnt * p.indexPerInstance
    ELSE cnt * p.vertexPerInstance

\* counts[j] of convertInstancesToVertices
convertedCount(cnt, inst, p) ==
    IF p.indexPerInstance > 0 THEN inst * p.indexPerInstance
    ELSE inst * p.vertexPerInstance

convertInstancesToVertices ==
    /\ drawLast.returned
    /\ \E arg \in batcher.params :
       LET p == IF arg.given THEN arg ELSE params
       IN  IF ~p.given
           THEN \* params.instanced of undefined: a TypeError, nothing written
                /\ drawLast' = [op |-> "convertInstancesToVertices", arg |-> arg,
                                threw |-> TRUE, returned |-> TRUE]
                /\ UNCHANGED <<offsets, counts>>
           ELSE /\ drawLast' = [op |-> "convertInstancesToVertices", arg |-> arg,
                                threw |-> FALSE, returned |-> TRUE]
                /\ IF p.instanced
                   THEN UNCHANGED <<offsets, counts>>
                   ELSE /\ offsets' =
                            [j \in DOMAIN offsets |->
                                IF j < bufferCount
                                THEN convertedOffset(offsets[j], baseInstances[j], p)
                                ELSE offsets[j]]
                        /\ counts' =
                            [j \in DOMAIN counts |->
                                IF j < bufferCount
                                THEN convertedCount(counts[j], instanceCounts[j], p)
                                ELSE counts[j]]
    /\ UNCHANGED <<bufferSize, bufferCount, baseInstances, instanceCounts>>
    /\ DrawFrame

NextDraw == ensureSize \/ resize \/ writeRange \/ setCount \/ convertInstancesToVertices

SpecDraw == InitDraw /\ [][NextDraw]_vars

(***************************************************************************)
(* Properties of the draw-range buffer.                                    *)
(***************************************************************************)
\* new = old * 2^k for the least k with old * 2^k >= sz
LeastDoubling(old, sz, new) ==
    \E k \in 0..16 :
        /\ new = old * 2^k
        /\ new >= sz
        /\ \A j \in 0..(k - 1) : old * 2^j < sz

\* the entries of the array before the call are the first entries after it
Preserved(old, new) == \A i \in DOMAIN old : i \in DOMAIN new /\ new[i] = old[i]

GrowthStep ==
    (drawLast'.op = "ensureSize")
        => /\ drawLast'.returned
           /\ IF drawLast'.sz <= bufferSize
              THEN UNCHANGED <<bufferSize, offsets, counts, baseInstances, instanceCounts>>
              ELSE /\ LeastDoubling(bufferSize, drawLast'.sz, bufferSize')
                   /\ Preserved(offsets, offsets')
                   /\ Preserved(counts, counts')
                   /\ Preserved(baseInstances, baseInstances')
                   /\ Preserved(instanceCounts, instanceCounts')

\* C13: ensureSize(n) on a buffer of size s changes nothing when n <= s; when n > s it
\* returns with size s*2^k for the least k with s*2^k >= n and with the first s entries of
\* offsets, counts, baseInstances and instanceCounts as they were.
DrawRangeGrowth == [][GrowthStep]_vars

\* the same for buffers of size at least 1
DrawRangeGrowthFromOne == [][bufferSize >= 1 => GrowthStep]_vars

\* a buffer of 64 slots has grown to 256 for a request of 130, with a written range kept
DrawRangeGrowthReached ==
    /\ drawLast.op = "ensureSize"
    /\ drawLast.sz = 130
    /\ bufferSize = 256
    /\ baseInstances[1] = 3

\* C14: a call of convertInstancesToVertices that directly follows a call with the same
\* params leaves offsets, counts, baseInstances and instanceCounts as they were.
ConvertIdempotent ==
    [][(/\ drawLast.op = "convertInstancesToVertices"
        /\ drawLast'.op = "convertInstancesToVertices"
        /\ drawLast'.arg = drawLast.arg)
            => UNCHANGED <<offsets, counts, baseInstances, instanceCounts>>]_vars

\* a non-instanced conversion has rewritten a written range
ConvertIdempotentWitness ==
    /\ drawLast.op = "convertInstancesToVertices"
    /\ ~drawLast.threw
    /\ bufferCount >= 1
    /\ bufferSize >= 1
    /\ baseInstances[0] = 3
    /\ offsets[0] = 72
    /\ counts[0] = 12

\* the slots of an array of the buffer
Slots(sz) == 0..(sz - 1)

\* the four arrays have as many slots as size says
LengthsEqualSize ==
    /\ DOMAIN offsets = Slots(bufferSize)
    /\ DOMAIN counts = Slots(bufferSize)
    /\ DOMAIN baseInstances = Slots(bufferSize)
    /\ DOMAIN instanceCounts = Slots(bufferSize)

\* the count a new slot holds: params.vertexPerInstance, or 0 without params
DefaultCount == IF params.given THEN params.vertexPerInstance ELSE 0

\* the slots from..(to - 1) hold the default count and zeros
Prefilled(cnt, off, base, inst, from, to) ==
    \A i \in from..(to - 1) :
        /\ cnt[i] = DefaultCount
        /\ off[i] = 0
        /\ base[i] = 0
        /\ inst[i] = 0

\* the buffer as constructed
ConstructedPrefilled ==
    (drawLast.op = "none")
        => Prefilled(counts, offsets, baseInstances, instanceCounts, 0, bufferSize)

\* a step that grows the buffer
PrefillStep ==
    (bufferSize' > bufferSize)
        => /\ drawLast'.op \in {"ensureSize", "resize"}
           /\ Prefilled(counts', offsets', baseInstances', instanceCounts',
                        bufferSize, bufferSize')

\* C34: prefill on growth. After construction and after every ensureSize or
\* resize that grows the buffer, every slot that did not exist before holds
\* the default per-instance count in counts (0 for a buffer without params) and
\* 0 in offsets, baseInstances and instanceCounts; in every reachable state the
\* four arrays have length equal to size.
PrefillOnGrowth ==
    [](LengthsEqualSize /\ ConstructedPrefilled) /\ [][PrefillStep]_vars

\* a buffer with params has grown by a resize: the new last slot holds the
\* default count, and a converted slot holds another count
PrefillOnGrowthWitness ==
    /\ drawLast.op = "resize"
    /\ ~drawLast.threw
    /\ params.given
    /\ bufferSize > drawLast.oldSize
    /\ drawLast.oldSize >= 1
    /\ counts[bufferSize - 1] = params.vertexPerInstance
    /\ counts[0] # params.vertexPerInstance

\* firstIndex of drawIndexed in multiDraw: offsets[i] / 4
firstIndex(off) == off \div 4

\* a step of convertInstancesToVertices
ConvertStep ==
    (drawLast'.op = "convertInstancesToVertices")
        => /\ UNCHANGED <<baseInstances, instanceCounts, bufferSize, bufferCount>>
           /\ IF drawLast'.threw
              THEN UNCHANGED <<offsets, counts>>
              ELSE LET p == IF drawLast'.arg.given THEN drawLast'.arg ELSE params
                       indexed == p.indexPerInstance > 0
                       stride == IF indexed THEN p.indexPerInstance
                                 ELSE p.vertexPerInstance
                   IN  IF p.instanced
                       THEN UNCHANGED <<offsets, counts>>
                       ELSE \A j \in Slots(bufferSize) :
                              IF j < bufferCount
                              THEN /\ counts'[j] = instanceCounts[j] * stride
                                   /\ IF indexed
                                      THEN /\ offsets'[j] = baseInstances[j] * stride * 4
                                           /\ firstIndex(offsets'[j])
                                                  = baseInstances[j] * stride
                                      ELSE offsets'[j] = baseInstances[j] * stride
                              ELSE /\ offsets'[j] = offsets[j]
                                   /\ counts'[j] = counts[j]

\* C35: convertInstancesToVertices writes only what it must. With
\* params.instanced nothing changes; otherwise, for each j below count,
\* offsets[j] and counts[j] become baseInstances[j] and instanceCounts[j] scaled
\* by the index stride when indexPerInstance > 0 (the offset times 4 in
\* addition, which firstIndex = offsets[j] / 4 divides out) and by the vertex
\* stride otherwise; the entries at or above count, baseInstances and
\* instanceCounts are left unchanged.
ConvertWritesOnlyRanges == [][ConvertStep]_vars

\* an indexed conversion of one range has left the second written range alone
ConvertWritesOnlyRangesWitness ==
    /\ drawLast.op = "convertInstancesToVertices"
    /\ ~drawLast.threw
    /\ bufferCount = 1
    /\ bufferSize >= 2
    /\ baseInstances[0] = 3
    /\ offsets[0] = 72
    /\ baseInstances[1] = 3
    /\ offsets[1] = 0
    /\ counts[1] = 4

\* C37: ensureSize always terminates. For every buffer that can be constructed
\* (any capacity >= 0) and every requested size n, ensureSize(n) returns with
\* size >= n.
EnsureSizeReturns ==
    (drawLast.op = "ensureSize") => (drawLast.returned /\ bufferSize >= drawLast.sz)

\* ensureSize returns with size >= n on every buffer of size at least 1
EnsureSizeReturnsFromOne ==
    (drawLast.op = "ensureSize" /\ bufferSize >= 1)
        => (drawLast.returned /\ bufferSize >= drawLast.sz)

(***************************************************************************)
(* GpuEncoderSystem: command recording with redundant-bind elision.        *)
(* A pass handle is Undefined, Null, "open" (a pass begun on the current   *)
(* command encoder and not ended) or "stale" (a pass of a command encoder  *)
(* that is no longer the current one).                                     *)
(***************************************************************************)
\* un-ended passes on one command encoder beyond which no further pass is begun
MaxOpenPasses == 2

\* the geometries drawn: the buffers getBufferNamesToBind names, by slot, and
\* the index buffer
IndexedGeometry == [buffers |-> (0 :> "b1"), indexBuffer |-> "ib"]
PlainGeometry == [buffers |-> (0 :> "b1" @@ 1 :> "b2"), indexBuffer |-> Null]

\* an entry of a bind group layout: buffer is the buffer binding type, or "none"
Entry(binding, storageTexture, buffer) ==
    [binding |-> binding, storageTexture |-> storageTexture, buffer |-> buffer]

\* gpuLayout of the program with layout key k: the entries of each group
GpuLayout(k) ==
    IF k = 1
    THEN (0 :> <<Entry(0, FALSE, "none"), Entry(1, FALSE, "none")>>
          @@ 1 :> <<Entry(1, FALSE, "storage")>>)
    ELSE (0 :> <<Entry(0, FALSE, "uniform")>>
          @@ 1 :> <<Entry(1, TRUE, "none"), Entry(0, FALSE, "uniform")>>)

GpuProgram(k) == [layoutKey |-> k, gpuLayout |-> GpuLayout(k)]

\* null passed where a GpuProgram is expected
NullProgram == [null |-> TRUE]
IsProgram(program) == "layoutKey" \in DOMAIN program

\* the shaders: their program and their bind groups by group index
OneGroupShader == [gpuProgram |-> GpuProgram(1), groups |-> (0 :> "G1")]
TwoGroupShader == [gpuProgram |-> GpuProgram(2), groups |-> (0 :> "G1" @@ 1 :> "G2")]

\* the renderers under observation: the geometries, shaders and resolved
\* pipelines of their draws, the shaders of their compute calls and the
\* <<index, bind group, program>> of their direct setBindGroup calls
Renderings ==
    { [geometries |-> {IndexedGeometry, PlainGeometry}, shaders |-> {OneGroupShader},
       pipelines |-> {"p1", "p2"}, computes |-> {}, binds |-> {}],
      [geometries |-> {IndexedGeometry}, shaders |-> {OneGroupShader, TwoGroupShader},
       pipelines |-> {"p1"}, computes |-> {}, binds |-> {}],
      [geometries |-> {PlainGeometry}, shaders |-> {TwoGroupShader},
       pipelines |-> {"p1"}, computes |-> {OneGroupShader}, binds |-> {}],
      [geometries |-> {}, shaders |-> {}, pipelines |-> {},
       computes |-> {TwoGroupShader},
       binds |-> {<<0, "G1", GpuProgram(1)>>, <<0, "G1", GpuProgram(2)>>,
                  <<0, "G2", GpuProgram(1)>>}] }

\* a call recorded on a pass encoder
Call(name, slot, arg) == [call |-> name, slot |-> slot, arg |-> arg]

\* the encoder's fields while a method runs: what it has emitted on pass
\* encoders (out), whether it has thrown, the numbers of un-ended passes over
\* which it has begun a pass, and the bind groups it was asked to bind again
\* under another layout
EncoderState ==
    [ce |-> commandEncoder, rp |-> renderPassEncoder, cp |-> computePassEncoder,
     cf |-> commandFinished, bbg |-> boundBindGroup, bvb |-> boundVertexBuffer,
     bib |-> boundIndexBuffer, bp |-> boundPipeline, bc |-> boundCompute,
     ll |-> lastLayout, open |-> openPasses, work |-> submittedWork,
     out |-> <<>>, threw |-> FALSE, begunOver |-> {}, rebinds |-> {},
     keys |-> sentKey]

\* a TypeError leaves the method
Throw(e) == [e EXCEPT !.threw = TRUE]

\* pass.method(...): a TypeError when the handle is undefined or null
EmitOn(e, pass, call) ==
    IF Truthy(pass) THEN [e EXCEPT !.out = Append(@, call)] ELSE Throw(e)

\* pass.end() on the device: an open pass of the current command encoder is ended
ended(pass, open) == IF pass = "open" THEN open - 1 ELSE open

\* the passes of a command encoder that stops being the current one
orphaned(pass) == IF pass = "open" THEN "stale" ELSE pass

endCurrentPass(e) ==
    IF e.threw THEN e
    ELSE LET afterRender == IF Truthy(e.rp) THEN ended(e.rp, e.open) ELSE e.open
             afterCompute == IF Truthy(e.cp) THEN ended(e.cp, afterRender)
                             ELSE afterRender
         IN  [e EXCEPT !.open = afterCompute, !.rp = Null, !.cp = Null]

clearCacheKeepsPipeline(e) ==
    IF e.threw THEN e
    ELSE [e EXCEPT !.bbg = [i \in BoundSlots |-> Null],
                   !.bvb = [i \in BoundSlots |-> Null],
                   !.bib = Null, !.bc = -1]

clearCache(e) ==
    IF e.threw THEN e
    ELSE [e EXCEPT !.bbg = [i \in BoundSlots |-> Null],
                   !.bvb = [i \in BoundSlots |-> Null],
                   !.bib = Null, !.bp = Null, !.bc = -1]

\* commandEncoder.beginRenderPass / beginComputePass on the device
begun(e, kind) ==
    IF e.threw THEN e
    ELSE IF e.ce # "encoder" THEN Throw(e)
    ELSE IF kind = "render"
         THEN [e EXCEPT !.rp = "open", !.begunOver = @ \cup {e.open}, !.open = @ + 1]
         ELSE [e EXCEPT !.cp = "open", !.begunOver = @ \cup {e.open}, !.open = @ + 1]

beginRenderPass(e) == begun(clearCache(endCurrentPass(e)), "render")

\* renderTarget.unbind() records nothing on the encoder
beginComputePass(e) == begun(clearCache(endCurrentPass(e)), "compute")

ensureComputePass(e) ==
    IF e.threw THEN e
    ELSE IF ~Truthy(e.cp) THEN beginComputePass(e) ELSE e

neverElided(bound, pipeline) == FALSE

\* if (this._boundPipeline === pipeline) return;
setPipelineElided(bound, pipeline) == bound = pipeline

\* the device's setPipeline rejects an argument that is no pipeline
setPipeline(e, pipeline) ==
    IF e.threw THEN e
    ELSE IF setPipelineElided(e.bp, pipeline) THEN e
    ELSE LET set == [e EXCEPT !.bp = pipeline]
         IN  IF Truthy(pipeline)
             THEN EmitOn(set, set.rp, Call("setPipeline", -1, pipeline))
             ELSE Throw(set)

setVertexBuffer(e, index, buffer) ==
    IF e.threw THEN e
    ELSE IF e.bvb[index] = buffer THEN e
    ELSE LET set == [e EXCEPT !.bvb[index] = buffer]
         IN  IF Truthy(buffer)
             THEN EmitOn(set, set.rp, Call("setVertexBuffer", index, buffer))
             ELSE Throw(set)

\* buffer.data of undefined or null is a TypeError
setIndexBuffer(e, buffer) ==
    IF e.threw THEN e
    ELSE IF e.bib = buffer THEN e
    ELSE LET set == [e EXCEPT !.bib = buffer]
         IN  IF Truthy(buffer)
             THEN EmitOn(set, set.rp, Call("setIndexBuffer", -1, buffer))
             ELSE Throw(set)

bindGroupElidedByIdentity(bound, bindGroup, last, key) == bound = bindGroup

\* this._boundBindGroup[index] === bindGroup && bindGroup._lastLayout === program._layoutKey
bindGroupElided(bound, bindGroup, last, key) == bound = bindGroup /\ last = key

\* the group is bound at the index under another layout while a pass is there
\* to take the call
boundUnderOtherLayout(e, index, bindGroup, program) ==
    /\ Truthy(bindGroup)
    /\ IsProgram(program)
    /\ e.bbg[index] = bindGroup
    /\ e.ll[bindGroup] # program.layoutKey
    /\ (Truthy(e.rp) \/ Truthy(e.cp))

\* the call is noted when it asks for the group to be bound again under another layout
Asked(e, index, bindGroup, program) ==
    IF boundUnderOtherLayout(e, index, bindGroup, program)
    THEN [e EXCEPT !.rebinds = @ \cup {<<index, bindGroup>>}]
    ELSE e

\* what getBindGroup(bindGroup, program, index) resolves the binding from: the
\* resources in the slots of the group and their _resourceId, under the program
Resolved(bindGroup, program) ==
    [sent |-> TRUE, layoutKey |-> program.layoutKey, slots |-> resources[bindGroup],
     ids |-> resourceIds]

\* program is a GpuProgram or NullProgram; bindGroup a bind group, Null or Undefined.
\* getBindGroup and _touch record nothing on the encoder.
setBindGroup(e, index, bindGroup, program) ==
    IF e.threw THEN e
    ELSE IF e.bbg[index] = bindGroup /\ (~Truthy(bindGroup) \/ ~IsProgram(program))
    THEN Throw(e)
    ELSE IF Truthy(bindGroup) /\ IsProgram(program)
            /\ bindGroupElided(e.bbg[index], bindGroup, e.ll[bindGroup], program.layoutKey)
    THEN Asked(e, index, bindGroup, program)
    ELSE LET set == [Asked(e, index, bindGroup, program) EXCEPT !.bbg[index] = bindGroup]
         IN  IF ~Truthy(bindGroup) \/ ~IsProgram(program)
             THEN Throw(set)
             ELSE LET laidOut == [set EXCEPT !.ll[bindGroup] = program.layoutKey]
                  IN  EmitOn([laidOut EXCEPT !.keys[index] = Resolved(bindGroup, program)],
                             IF Truthy(laidOut.rp) THEN laidOut.rp ELSE laidOut.cp,
                             Call("setBindGroup", index, bindGroup))

RECURSIVE bindVertexBuffers(_, _, _)
\* for (const i in buffers) this._setVertexBuffer(i, buffers[i]), from slot i on
bindVertexBuffers(e, buffers, i) ==
    IF i \notin BoundSlots THEN e
    ELSE bindVertexBuffers(IF i \in DOMAIN buffers
                           THEN setVertexBuffer(e, i, buffers[i]) ELSE e,
                           buffers, i + 1)

RECURSIVE bindGroups(_, _, _, _)
\* for (const i in groups) this.setBindGroup(i, groups[i], program), from index i on
bindGroups(e, groups, program, i) ==
    IF i \notin BoundSlots THEN e
    ELSE bindGroups(IF i \in DOMAIN groups
                    THEN setBindGroup(e, i, groups[i], program) ELSE e,
                    groups, program, i + 1)

setGeometry(e, geometry) ==
    LET bufferBound == bindVertexBuffers(e, geometry.buffers, 0)
    IN  IF Truthy(geometry.indexBuffer)
        THEN setIndexBuffer(bufferBound, geometry.indexBuffer)
        ELSE bufferBound

\* _syncBindGroup records nothing on the encoder
setShaderBindGroups(e, shader) == bindGroups(e, shader.groups, shader.gpuProgram, 0)

\* the draw call of a geometry
DrawCall(geometry) ==
    IF Truthy(geometry.indexBuffer) THEN Call("drawIndexed", -1, "")
    ELSE Call("draw", -1, "")

\* options.pipeline: what renderer.pipeline.getPipeline resolves the draw to
draw(e, options) ==
    LET piped == setPipeline(e, options.pipeline)
        geometryBound == setGeometry(piped, options.geometry)
        groupsBound == setShaderBindGroups(geometryBound, options.shader)
    IN  IF groupsBound.threw THEN groupsBound
        ELSE EmitOn(groupsBound, groupsBound.rp, DrawCall(options.geometry))

compute(e, shader, endPass) ==
    LET ensured == ensureComputePass(e)
        key == shader.gpuProgram.layoutKey
        piped == IF ensured.threw \/ ensured.bc = key THEN ensured
                 ELSE EmitOn([ensured EXCEPT !.bc = key], ensured.cp,
                             Call("setPipeline", -1, "compute"))
        groupsBound == setShaderBindGroups(piped, shader)
        dispatched == IF groupsBound.threw THEN groupsBound
                      ELSE EmitOn(groupsBound, groupsBound.cp,
                                  Call("dispatchWorkgroups", -1, ""))
    IN  IF endPass THEN endCurrentPass(dispatched) ELSE dispatched

finishRenderPass(e) ==
    IF e.threw THEN e
    ELSE IF Truthy(e.rp) THEN [e EXCEPT !.open = ended(e.rp, @), !.rp = Null]
    ELSE e

\* the table entries whose key exists
Present(table) == [i \in {j \in DOMAIN table : table[j] # Undefined} |-> table[i]]

\* the pass is begun before anything else; the bound state is then put back
restoreRenderPass(e) ==
    LET opened == begun(e, "render")
        cleared == clearCache(opened)
        viewported == IF cleared.threw THEN cleared
                      ELSE EmitOn(cleared, cleared.rp, Call("setViewport", -1, ""))
        piped == setPipeline(viewported, e.bp)
        buffersBound == bindVertexBuffers(piped, Present(e.bvb), 0)
        groupsBound == bindGroups(buffersBound, Present(e.bbg), NullProgram, 0)
    IN  setIndexBuffer(groupsBound, e.bib)

\* a new promise and a new command encoder: what was open belongs to the old one
renderStart(e) ==
    [e EXCEPT !.cf = "pending", !.work = "none", !.ce = "encoder", !.open = 0,
              !.rp = orphaned(@), !.cp = orphaned(@)]

\* finishRenderPass(); queue.submit([commandEncoder.finish()]);
\* _resolveCommandFinished(); commandEncoder = null
postrender(e) ==
    LET finished == finishRenderPass(e)
    IN  IF finished.ce # "encoder" THEN Throw(finished)
        ELSE [finished EXCEPT !.work = "pending", !.cf = "resolved", !.ce = Null,
                              !.open = 0, !.cp = orphaned(@)]

\* the state a call leaves, and what the call did
Committed(e, op, arg) ==
    /\ commandEncoder' = e.ce
    /\ renderPassEncoder' = e.rp
    /\ computePassEncoder' = e.cp
    /\ commandFinished' = e.cf
    /\ boundBindGroup' = e.bbg
    /\ boundVertexBuffer' = e.bvb
    /\ boundIndexBuffer' = e.bib
    /\ boundPipeline' = e.bp
    /\ boundCompute' = e.bc
    /\ sentKey' = [i \in BoundSlots |-> IF Truthy(e.bbg[i]) THEN e.keys[i] ELSE NoBinding]
    /\ lastLayout' = e.ll
    /\ openPasses' = e.open
    /\ submittedWork' = e.work
    /\ encLast' = [op |-> op, arg |-> arg, out |-> e.out, threw |-> e.threw,
                   begunOver |-> e.begunOver,
                   repeat |-> /\ op = "draw"
                              /\ encLast.op = "draw"
                              /\ ~encLast.threw
                              /\ encLast.arg = arg,
                   rebinds |-> e.rebinds,
                   snapshot |-> IF op = "restoreRenderPass"
                                THEN [taken |-> TRUE, rp |-> renderPassEncoder,
                                      cp |-> computePassEncoder, bp |-> boundPipeline,
                                      bvb |-> boundVertexBuffer, bib |-> boundIndexBuffer,
                                      bbg |-> boundBindGroup]
                                ELSE NoSnapshot]
    /\ UNCHANGED <<keyVars, pipeVars, poolVars, drawVars, texVars, resources, updateID,
                   groupKeys, keyParts, subscribed, resourceIds, destroyedResources,
                   unreported, edits, bgLast, uses>>

renderStartCall ==
    \E e \in {renderStart(EncoderState)} :
        /\ e.open <= MaxOpenPasses
        /\ Committed(e, "renderStart", <<>>)

beginRenderPassCall ==
    \E e \in {beginRenderPass(EncoderState)} :
        /\ e.open <= MaxOpenPasses
        /\ Committed(e, "beginRenderPass", <<>>)

beginComputePassCall ==
    \E e \in {beginComputePass(EncoderState)} :
        /\ e.open <= MaxOpenPasses
        /\ Committed(e, "beginComputePass", <<>>)

ensureComputePassCall ==
    \E e \in {ensureComputePass(EncoderState)} :
        /\ e.open <= MaxOpenPasses
        /\ Committed(e, "ensureComputePass", <<>>)

endCurrentPassCall ==
    \E e \in {endCurrentPass(EncoderState)} :
        /\ e.open <= MaxOpenPasses
        /\ Committed(e, "endCurrentPass", <<>>)

finishRenderPassCall ==
    \E e \in {finishRenderPass(EncoderState)} :
        /\ e.open <= MaxOpenPasses
        /\ Committed(e, "finishRenderPass", <<>>)

restoreRenderPassCall ==
    \E e \in {restoreRenderPass(EncoderState)} :
        /\ e.open <= MaxOpenPasses
        /\ Committed(e, "restoreRenderPass", <<>>)

postrenderCall ==
    \E e \in {postrender(EncoderState)} :
        /\ e.open <= MaxOpenPasses
        /\ Committed(e, "postrender", <<>>)

setBindGroupCall ==
    \E bind \in uses.binds :
        \E e \in {setBindGroup(EncoderState, bind[1], bind[2], bind[3])} :
            /\ e.open <= MaxOpenPasses
            /\ Committed(e, "setBindGroup", <<>>)

drawCall ==
    \E geometry \in uses.geometries, shader \in uses.shaders,
       pipeline \in uses.pipelines :
        \E options \in {[geometry |-> geometry, shader |-> shader,
                         pipeline |-> pipeline]} :
            \E e \in {draw(EncoderState, options)} :
                /\ e.open <= MaxOpenPasses
                /\ Committed(e, "draw", options)

computeCall ==
    \E shader \in uses.computes, endPass \in BOOLEAN :
        \E e \in {compute(EncoderState, shader, endPass)} :
            /\ e.open <= MaxOpenPasses
            /\ Committed(e, "compute", [shader |-> shader, endPass |-> endPass])

\* the device reports that the submitted work is done
onSubmittedWorkDone ==
    /\ submittedWork = "pending"
    /\ submittedWork' = "done"
    /\ UNCHANGED <<keyVars, pipeVars, poolVars, drawVars, texVars, bgVars, commandEncoder,
                   renderPassEncoder, computePassEncoder, commandFinished,
                   boundBindGroup, boundVertexBuffer, boundIndexBuffer, boundPipeline,
                   boundCompute, sentKey, openPasses, encLast, uses>>

NextEncoder ==
    \/ renderStartCall
    \/ beginRenderPassCall
    \/ beginComputePassCall
    \/ ensureComputePassCall
    \/ endCurrentPassCall
    \/ finishRenderPassCall
    \/ restoreRenderPassCall
    \/ postrenderCall
    \/ setBindGroupCall
    \/ drawCall
    \/ computeCall
    \/ onSubmittedWorkDone

\* the encoder as constructed: no frame started, nothing bound
InitEncoder ==
    /\ probe = NoProbe
    /\ stencilMode = DISABLED
    /\ colorMask = 15
    /\ multisampleCount = 1
    /\ depthStencilAttachment = 0
    /\ hdr = HdrUnset
    /\ depthCompareKey = 0
    /\ prevProgKey = NoKey
    /\ prevPipeKey = InitialGlobalKey
    /\ pipeRT = InitialGlobalKey
    /\ pipeCache = <<NoKey, NoKey>>
    /\ pipeStateCaches = <<>>
    /\ pipePartitions = {InitialGlobalKey}
    /\ pipeSubCaches = {}
    /\ pipelines = <<>>
    /\ layoutKey = [g \in Geoms |-> 0]
    /\ bufferLayoutsCache = <<>>
    /\ bindingNamesCache = <<>>
    /\ computeCache = [k \in ComputeKeys |-> 0]
    /\ env = [setters |-> Quiet, variant |-> "blend"]
    /\ lastCall = NoCall
    /\ watch = NoWatch
    /\ requested = {}
    /\ texturePool = <<>>
    /\ poolKeyHash = <<>>
    /\ screenWidth = 0
    /\ screenHeight = 0
    /\ pixelsWidth = 0
    /\ pixelsHeight = 0
    /\ screenThreshold = 512
    /\ enableFullScreen = FALSE
    /\ textures = <<>>
    /\ callers = {}
    /\ held = {}
    /\ hung = FALSE
    /\ poolLast = [op |-> "none"]
    /\ bufferSize = 0
    /\ bufferCount = 0
    /\ offsets = <<>>
    /\ counts = <<>>
    /\ baseInstances = <<>>
    /\ instanceCounts = <<>>
    /\ params = [given |-> FALSE]
    /\ batcher = [sizes |-> {}, params |-> {}]
    /\ drawLast = [op |-> "none", returned |-> TRUE]
    /\ commandEncoder = Undefined
    /\ renderPassEncoder = Undefined
    /\ computePassEncoder = Undefined
    /\ commandFinished = Undefined
    /\ boundBindGroup = [i \in BoundSlots |-> Undefined]
    /\ boundVertexBuffer = [i \in BoundSlots |-> Undefined]
    /\ boundIndexBuffer = Undefined
    /\ boundPipeline = Undefined
    /\ boundCompute = -1
    /\ sentKey = [i \in BoundSlots |-> NoBinding]
    /\ openPasses = 0
    /\ submittedWork = "none"
    /\ encLast = NoEncoderCall
    /\ uses \in Renderings
    /\ resources = [g \in Groups |-> [i \in ResourceSlots |-> Undefined]]
    /\ updateID = [g \in Groups |-> -1]
    /\ groupKeys = [g \in Groups |-> [k \in LayoutKeys |-> NoPair]]
    /\ lastLayout = [g \in Groups |-> -1]
    /\ keyParts = <<>>
    /\ subscribed = [g \in Groups |-> [r \in BindResources |-> 0]]
    /\ resourceIds = [r \in BindResources |-> resourceId(r)]
    /\ destroyedResources = {}
    /\ unreported = [g \in Groups |-> {}]
    /\ edits = NoEdits
    /\ bgLast = NoGroupCall
    /\ gpuSources = [s \in Sources |-> 0]
    /\ textureViewHash = [s \in Sources |-> 0]
    /\ bindGroupHash = {}
    /\ managedTextures = {}
    /\ gpuTextures = <<>>
    /\ sourceWidth = [s \in Sources |-> 1]
    /\ texLast = NoTextureCall

SpecEncoder == InitEncoder /\ [][NextEncoder]_vars

(***************************************************************************)
(* Properties of GpuEncoderSystem.                                         *)
(***************************************************************************)
\* the calls a method has emitted on pass encoders
Emitted == {encLast.out[k] : k \in DOMAIN encLast.out}

\* C15: redundant-bind elision. When a draw is immediately followed, in the
\* same render pass, by a draw of the same geometry with the same shader (the
\* same bind group objects) that resolves to the same pipeline, the second draw
\* emits no setPipeline, setVertexBuffer, setIndexBuffer or setBindGroup call:
\* its only call on the pass encoder is the draw or drawIndexed.
RedundantBindElision ==
    (encLast.op = "draw" /\ encLast.repeat)
        => /\ ~encLast.threw
           /\ encLast.out = <<DrawCall(encLast.arg.geometry)>>

\* an indexed draw has been repeated, after a first one that had to bind everything
RedundantBindElisionWitness ==
    /\ encLast.op = "draw"
    /\ encLast.repeat
    /\ encLast.arg.geometry = IndexedGeometry
    /\ encLast.out = <<Call("drawIndexed", -1, "")>>
    /\ boundPipeline = encLast.arg.pipeline
    /\ boundIndexBuffer = "ib"
    /\ renderPassEncoder = "open"

\* C16: bind-group program-layout sensitivity. When a bind group is bound at
\* index i and setBindGroup(i, the same group, a program whose layout key
\* differs from the one the group was last bound under) is called while a pass
\* is open, a setBindGroup call for that index and group is emitted on the
\* pass encoder.
LayoutSensitiveRebind ==
    \A pair \in encLast.rebinds : Call("setBindGroup", pair[1], pair[2]) \in Emitted

\* a direct setBindGroup has bound again, under the second layout, the group it
\* found bound under the first
LayoutSensitiveRebindWitness ==
    /\ encLast.op = "setBindGroup"
    /\ encLast.rebinds = {<<0, "G1">>}
    /\ ~encLast.threw
    /\ boundBindGroup[0] = "G1"
    /\ lastLayout["G1"] = 2

\* C17: at most one pass open at a time. Over any sequence of renderStart,
\* beginRenderPass, beginComputePass, ensureComputePass, compute,
\* endCurrentPass, finishRenderPass, restoreRenderPass and postrender,
\* renderPassEncoder and computePassEncoder are never both set, and no pass is
\* begun on the command encoder while a pass begun earlier has not been ended.
OnePassAtATime ==
    /\ ~(Truthy(renderPassEncoder) /\ Truthy(computePassEncoder))
    /\ encLast.begunOver \subseteq {0}

\* C39: pass handles never outlive their command encoder. When postrender
\* has finished and submitted the command encoder no pass handle is left set,
\* and the pass a compute() leaves set is an un-ended pass begun on the current
\* command encoder.
PassHandlesCurrent ==
    /\ (encLast.op = "postrender" /\ ~encLast.threw)
          => (~Truthy(renderPassEncoder) /\ ~Truthy(computePassEncoder))
    /\ (encLast.op = "compute" /\ ~encLast.threw /\ Truthy(computePassEncoder))
          => (computePassEncoder = "open" /\ commandEncoder = "encoder")

\* a compute() has dispatched into the pass of a command encoder that was
\* finished and submitted in an earlier frame
ComputeIntoStalePass ==
    /\ encLast.op = "compute"
    /\ ~encLast.threw
    /\ commandEncoder = "encoder"
    /\ computePassEncoder = "stale"
    /\ \E k \in DOMAIN encLast.out : encLast.out[k].call = "dispatchWorkgroups"

\* postrender leaves no render pass handle
RenderPassEndsWithEncoder ==
    (encLast.op = "postrender" /\ ~encLast.threw) => ~Truthy(renderPassEncoder)

\* C18: the commandFinished promise obtained after renderStart is resolved only
\* after the device has reported that the queue work submitted by the matching
\* postrender is done.
ResolvedAfterCompletion ==
    commandFinished = "resolved" => submittedWork = "done"

\* the calls of one kind a method has emitted
EmittedCalls(name) == {k \in DOMAIN encLast.out : encLast.out[k].call = name}

\* restoreRenderPass was called in a frame, after a render pass that bound a
\* pipeline, a vertex buffer, an index buffer and a bind group had been finished
RestoredAfterFinish ==
    /\ encLast.op = "restoreRenderPass"
    /\ commandEncoder = "encoder"
    /\ encLast.snapshot.rp = Null
    /\ encLast.snapshot.cp = Null
    /\ Truthy(encLast.snapshot.bp)
    /\ Truthy(encLast.snapshot.bib)
    /\ \E i \in BoundSlots : Truthy(encLast.snapshot.bvb[i])
    /\ \E i \in BoundSlots : Truthy(encLast.snapshot.bbg[i])

\* C21: restore equals cold resume. restoreRenderPass, called after a render
\* pass that bound a pipeline, vertex buffers, an index buffer and bind groups
\* was finished, completes without error, opens a new render pass, emits on it
\* one setPipeline, one setVertexBuffer per slot that was bound, one
\* setBindGroup per group index that was bound and one setIndexBuffer, and
\* leaves the bound-state tables equal to the snapshot taken before the call.
RestoreEqualsColdResume ==
    RestoredAfterFinish
        => /\ ~encLast.threw
           /\ renderPassEncoder = "open"
           /\ Cardinality(EmittedCalls("setPipeline")) = 1
           /\ Cardinality(EmittedCalls("setIndexBuffer")) = 1
           /\ Cardinality(EmittedCalls("setVertexBuffer"))
                = Cardinality({i \in BoundSlots : Truthy(encLast.snapshot.bvb[i])})
           /\ Cardinality(EmittedCalls("setBindGroup"))
                = Cardinality({i \in BoundSlots : Truthy(encLast.snapshot.bbg[i])})
           /\ boundPipeline = encLast.snapshot.bp
           /\ boundVertexBuffer = encLast.snapshot.bvb
           /\ boundIndexBuffer = encLast.snapshot.bib
           /\ boundBindGroup = encLast.snapshot.bbg

\* what restoreRenderPass does get done in that case: the pass is open, the
\* pipeline and the vertex buffers are back, and the call has thrown on its
\* first bind group, before the index buffer
RestoreThrowsOnBindGroups ==
    RestoredAfterFinish
        => /\ encLast.threw
           /\ renderPassEncoder = "open"
           /\ boundPipeline = encLast.snapshot.bp
           /\ \A i \in BoundSlots :
                  Truthy(encLast.snapshot.bvb[i])
                      => boundVertexBuffer[i] = encLast.snapshot.bvb[i]
           /\ boundIndexBuffer = Null
           /\ EmittedCalls("setBindGroup") = {}
           /\ EmittedCalls("setIndexBuffer") = {}

\* beginRenderPass or beginComputePass has returned
PassBegun ==
    /\ encLast.op \in {"beginRenderPass", "beginComputePass"}
    /\ ~encLast.threw

\* nothing is recorded as bound
TablesEmpty ==
    /\ \A i \in BoundSlots : ~Truthy(boundVertexBuffer[i]) /\ ~Truthy(boundBindGroup[i])
    /\ ~Truthy(boundIndexBuffer)
    /\ ~Truthy(boundPipeline)
    /\ boundCompute = -1

\* the set calls a draw with these options needs when nothing is bound
SetCallsOfDraw(options) ==
    {Call("setPipeline", -1, options.pipeline)}
        \cup {Call("setVertexBuffer", i, options.geometry.buffers[i]) :
                i \in DOMAIN options.geometry.buffers}
        \cup {Call("setBindGroup", i, options.shader.groups[i]) :
                i \in DOMAIN options.shader.groups}
        \cup (IF Truthy(options.geometry.indexBuffer)
              THEN {Call("setIndexBuffer", -1, options.geometry.indexBuffer)}
              ELSE {})

\* the calls the method of the next state has emitted
EmittedNext == {encLast'.out[k] : k \in DOMAIN encLast'.out}

\* the first draw after beginRenderPass, and the first compute after either
\* begin, set everything they use
FirstUseStep ==
    /\ (encLast.op = "beginRenderPass" /\ ~encLast.threw /\ encLast'.op = "draw")
           => /\ ~encLast'.threw
              /\ SetCallsOfDraw(encLast'.arg) \subseteq EmittedNext
    /\ (PassBegun /\ encLast'.op = "compute")
           => /\ ~encLast'.threw
              /\ Call("setPipeline", -1, "compute") \in EmittedNext
              /\ \E k \in DOMAIN encLast'.out : encLast'.out[k].call = "setBindGroup"

\* C26: immediately after beginRenderPass or beginComputePass returns, all
\* bound-state tables are empty (no vertex buffer slot, bind group index, index
\* buffer, render pipeline or compute pipeline is recorded as bound), so the
\* first draw or compute of the pass emits a set call for each piece of state
\* it uses, whatever was bound in earlier passes.
TablesEmptyAfterBegin ==
    /\ [](PassBegun => TablesEmpty)
    /\ [][FirstUseStep]_vars

\* a pass has been begun after an earlier pass had bound a bind group
TablesEmptyAfterBeginWitness ==
    /\ PassBegun
    /\ encLast.op = "beginRenderPass"
    /\ renderPassEncoder = "open"
    /\ lastLayout["G1"] # -1
    /\ TablesEmpty

(***************************************************************************)
(* BindGroup: resources by slot and the memoized key per program layout.   *)
(***************************************************************************)
\* the revision beyond which no further change is made to a bind group
MaxUpdateID == 3
\* the length of keyParts beyond which no further getGpuKey is made
MaxKeyParts == 3

\* the _resourceId beyond which no resource renews its own
MaxResourceId == 14

\* new BindGroup(resources): setResource(resource, index++) for each of them
Constructed(rs) ==
    [slots |-> [i \in ResourceSlots |-> IF i < Len(rs) THEN rs[i + 1] ELSE Undefined],
     updateID |-> Len(rs) - 1,
     listeners |-> [r \in BindResources |-> Cardinality({i \in DOMAIN rs : rs[i] = r})]]

\* the owners under observation: the resources their bind groups are
\* constructed from, their setResource calls <<bind group, resource, index>>,
\* the resources that emit change, and their getGpuKey calls
\* <<bind group, program layout key, group>>
Owners ==
    { [made |-> [g \in Groups |-> IF g = "G1" THEN <<"r1", "r2">> ELSE <<"r3", "r1">>],
       sets |-> {<<"G1", "r3", 1>>},
       emitters |-> {}, renewers |-> {},
       asks |-> {<<"G1", 1, 0>>, <<"G1", 1, 1>>, <<"G1", 2, 1>>, <<"G2", 1, 0>>}],
      [made |-> [g \in Groups |-> IF g = "G1" THEN <<"r1", "r2">> ELSE <<"r3", "r1">>],
       sets |-> {<<"G1", "r3", 1>>},
       emitters |-> {"r2"}, renewers |-> {},
       asks |-> {<<"G1", 1, 0>>, <<"G1", 2, 0>>, <<"G1", 2, 1>>, <<"G2", 2, 1>>}],
      [made |-> [g \in Groups |-> IF g = "G1" THEN <<"r1", "r2">> ELSE <<>>],
       sets |-> {<<"G2", "r3", 0>>, <<"G2", "r1", 1>>},
       emitters |-> {"r3"}, renewers |-> {},
       asks |-> {<<"G2", 1, 0>>, <<"G2", 2, 0>>, <<"G1", 1, 0>>}],
      [made |-> [g \in Groups |-> IF g = "G1" THEN <<"r1", "r1">> ELSE <<>>],
       sets |-> {<<"G1", "r2", 0>>, <<"G1", "r1", 0>>},
       emitters |-> {"r1"}, renewers |-> {"r1"},
       asks |-> {<<"G1", 1, 0>>}] }

RECURSIVE join(_)
\* keyParts.join('|')
join(parts) ==
    IF parts = <<>> THEN ""
    ELSE IF Len(parts) = 1 THEN parts[1]
    ELSE parts[1] \o "|" \o join(Tail(parts))

\* bgle.storageTexture || (bgle.buffer && bgle.buffer.type !== 'uniform')
isStorage(bgle) == bgle.storageTexture \/ (bgle.buffer # "none" /\ bgle.buffer # "uniform")

RECURSIVE pushParts(_, _, _, _)
\* the loop over the layout from entry i on: the parts pushed on keyParts,
\* hasStorage, and whether a slot without resource ended the loop in a TypeError
pushParts(slots, layout, i, acc) ==
    IF i > Len(layout) THEN acc
    ELSE LET bgle == layout[i]
             resource == slots[bgle.binding]
         IN  IF ~Truthy(resource) THEN [acc EXCEPT !.threw = TRUE]
             ELSE pushParts(slots, layout, i + 1,
                            [acc EXCEPT !.parts = Append(@, ToString(resourceIds[resource])),
                                        !.hasStorage = @ \/ isStorage(bgle)])

\* the body of getGpuKey of bind group g when it finds the module-level
\* keyParts array holding parts: the GroupProgPair it leaves under
\* prog._layoutKey, keyParts after the call, and the key returned unless the
\* call threw
resolveKey(parts0, g, prog, group) ==
    LET found == groupKeys[g][prog.layoutKey]
        rec == IF found.present THEN found
               ELSE [present |-> TRUE, dirtyId |-> -1, key |-> ""]
    IN  IF rec.dirtyId = updateID[g]
        THEN [pair |-> rec, keyParts |-> parts0, result |-> rec.key, threw |-> FALSE]
        ELSE LET pushed == pushParts(resources[g], prog.gpuLayout[group], 1,
                                     [parts |-> parts0, hasStorage |-> FALSE,
                                      threw |-> FALSE])
             IN  IF pushed.threw
                 THEN [pair |-> rec, keyParts |-> pushed.parts, result |-> "",
                       threw |-> TRUE]
                 ELSE LET parts == IF pushed.hasStorage
                                   THEN Append(pushed.parts,
                                               "~" \o ToString(prog.layoutKey))
                                   ELSE pushed.parts
                      IN  [pair |-> [present |-> TRUE, dirtyId |-> updateID[g],
                                     key |-> join(parts)],
                           keyParts |-> <<>>, result |-> join(parts), threw |-> FALSE]

\* getGpuKey of bind group g, on the keyParts array as it is
getGpuKey(g, prog, group) == resolveKey(keyParts, g, prog, group)

\* the slots the layout of a group of a program refers to
Referenced(prog, group) ==
    {prog.gpuLayout[group][i].binding : i \in DOMAIN prog.gpuLayout[group]}

\* the bind groups as constructed from their resources
InitBindGroup ==
    /\ probe = NoProbe
    /\ stencilMode = DISABLED
    /\ colorMask = 15
    /\ multisampleCount = 1
    /\ depthStencilAttachment = 0
    /\ hdr = HdrUnset
    /\ depthCompareKey = 0
    /\ prevProgKey = NoKey
    /\ prevPipeKey = InitialGlobalKey
    /\ pipeRT = InitialGlobalKey
    /\ pipeCache = <<NoKey, NoKey>>
    /\ pipeStateCaches = <<>>
    /\ pipePartitions = {InitialGlobalKey}
    /\ pipeSubCaches = {}
    /\ pipelines = <<>>
    /\ layoutKey = [g \in Geoms |-> 0]
    /\ bufferLayoutsCache = <<>>
    /\ bindingNamesCache = <<>>
    /\ computeCache = [k \in ComputeKeys |-> 0]
    /\ env = [setters |-> Quiet, variant |-> "blend"]
    /\ lastCall = NoCall
    /\ watch = NoWatch
    /\ requested = {}
    /\ texturePool = <<>>
    /\ poolKeyHash = <<>>
    /\ screenWidth = 0
    /\ screenHeight = 0
    /\ pixelsWidth = 0
    /\ pixelsHeight = 0
    /\ screenThreshold = 512
    /\ enableFullScreen = FALSE
    /\ textures = <<>>
    /\ callers = {}
    /\ held = {}
    /\ hung = FALSE
    /\ poolLast = [op |-> "none"]
    /\ bufferSize = 0
    /\ bufferCount = 0
    /\ offsets = <<>>
    /\ counts = <<>>
    /\ baseInstances = <<>>
    /\ instanceCounts = <<>>
    /\ params = [given |-> FALSE]
    /\ batcher = [sizes |-> {}, params |-> {}]
    /\ drawLast = [op |-> "none", returned |-> TRUE]
    /\ commandEncoder = Undefined
    /\ renderPassEncoder = Undefined
    /\ computePassEncoder = Undefined
    /\ commandFinished = Undefined
    /\ boundBindGroup = [i \in BoundSlots |-> Undefined]
    /\ boundVertexBuffer = [i \in BoundSlots |-> Undefined]
    /\ boundIndexBuffer = Undefined
    /\ boundPipeline = Undefined
    /\ boundCompute = -1
    /\ sentKey = [i \in BoundSlots |-> NoBinding]
    /\ openPasses = 0
    /\ submittedWork = "none"
    /\ encLast = NoEncoderCall
    /\ uses = NoUses
    /\ \E owner \in Owners :
        /\ resources = [g \in Groups |-> Constructed(owner.made[g]).slots]
        /\ updateID = [g \in Groups |-> Constructed(owner.made[g]).updateID]
        /\ subscribed = [g \in Groups |-> Constructed(owner.made[g]).listeners]
        /\ edits = [sets |-> owner.sets, emitters |-> owner.emitters,
                    renewers |-> owner.renewers, asks |-> owner.asks]
    /\ groupKeys = [g \in Groups |-> [k \in LayoutKeys |-> NoPair]]
    /\ lastLayout = [g \in Groups |-> -1]
    /\ keyParts = <<>>
    /\ resourceIds = [r \in BindResources |-> resourceId(r)]
    /\ destroyedResources = {}
    /\ unreported = [g \in Groups |-> {}]
    /\ bgLast = NoGroupCall
    /\ gpuSources = [s \in Sources |-> 0]
    /\ textureViewHash = [s \in Sources |-> 0]
    /\ bindGroupHash = {}
    /\ managedTextures = {}
    /\ gpuTextures = <<>>
    /\ sourceWidth = [s \in Sources |-> 1]
    /\ texLast = NoTextureCall

GroupFrame == UNCHANGED <<keyVars, pipeVars, poolVars, drawVars, texVars, encVars, edits>>

getGpuKeyCall ==
    \E ask \in edits.asks :
        \E g \in {ask[1]}, k \in {ask[2]}, group \in {ask[3]} :
            \E r \in {getGpuKey(g, GpuProgram(k), group)} :
                /\ Len(r.keyParts) <= MaxKeyParts
                /\ groupKeys' = [groupKeys EXCEPT ![g][k] = r.pair]
                /\ keyParts' = r.keyParts
                /\ unreported' = [unreported EXCEPT
                                    ![g] = @ \ Referenced(GpuProgram(k), group)]
                /\ bgLast' = [op |-> "getGpuKey", bindGroup |-> g, layoutKey |-> k,
                              group |-> group, resource |-> "", destroyed |-> FALSE,
                              result |-> r.result, threw |-> r.threw,
                              surfacing |-> Referenced(GpuProgram(k), group)
                                            \cap unreported[g] # {}]
                /\ UNCHANGED <<resources, updateID, lastLayout, subscribed, resourceIds,
                               destroyedResources>>
                /\ GroupFrame

\* resource.on('change', this.onResourceChange, this): one more listener
on(listeners, resource) == [listeners EXCEPT ![resource] = @ + 1]

\* resource.off('change', this.onResourceChange, this): every listener with
\* this function and context is removed
off(listeners, resource) == [listeners EXCEPT ![resource] = 0]

setResourceCall ==
    \E set \in edits.sets :
      \E g \in {set[1]}, resource \in {set[2]} \ destroyedResources, index \in {set[3]} :
        /\ IF resource = resources[g][index]
           THEN UNCHANGED <<resources, updateID, lastLayout, unreported, subscribed>>
           ELSE /\ updateID[g] < MaxUpdateID
                /\ subscribed' = [subscribed EXCEPT
                                    ![g] = on(IF Truthy(resources[g][index])
                                              THEN off(@, resources[g][index]) ELSE @,
                                              resource)]
                /\ resources' = [resources EXCEPT ![g][index] = resource]
                /\ updateID' = [updateID EXCEPT ![g] = @ + 1]
                /\ lastLayout' = [lastLayout EXCEPT ![g] = -1]
                /\ unreported' = [unreported EXCEPT ![g] = @ \ {index}]
        /\ bgLast' = [op |-> "setResource", bindGroup |-> g, layoutKey |-> 0,
                      group |-> index, resource |-> resource, destroyed |-> FALSE,
                      result |-> "", threw |-> FALSE, surfacing |-> FALSE]
        /\ UNCHANGED <<groupKeys, keyParts, destroyedResources, resourceIds>>
        /\ GroupFrame

\* the largest _resourceId given out
lastResourceId == CHOOSE n \in {resourceIds[r] : r \in BindResources} :
                      \A r \in BindResources : resourceIds[r] <= n

\* the resource takes a new _resourceId from the uid counter before it emits
renewedIds(resource) == [resourceIds EXCEPT ![resource] = lastResourceId + 1]

\* a resource emits 'change', having been destroyed, having renewed its
\* _resourceId, or neither: onResourceChange runs once for each listener the
\* group has on the resource; a destroyed resource removes its listeners
\* after the emit
onResourceChangeCall ==
    \E g \in Groups, destroyed \in BOOLEAN, renewed \in BOOLEAN :
        \E resource \in {r \in edits.emitters : subscribed[g][r] > 0} :
            /\ resource \in destroyedResources => destroyed
            /\ renewed => /\ resource \in edits.renewers
                          /\ ~destroyed
                          /\ lastResourceId < MaxResourceId
            /\ updateID[g] + subscribed[g][resource] <= MaxUpdateID
            /\ updateID' = [updateID EXCEPT ![g] = @ + subscribed[g][resource]]
            /\ resourceIds' = IF renewed THEN renewedIds(resource) ELSE resourceIds
            /\ subscribed' = IF destroyed
                             THEN [subscribed EXCEPT ![g] = off(@, resource)]
                             ELSE subscribed
            /\ destroyedResources' = IF destroyed
                                     THEN destroyedResources \cup {resource}
                                     ELSE destroyedResources
            /\ resources' = IF destroyed
                            THEN [resources EXCEPT
                                    ![g] = [i \in ResourceSlots |->
                                              IF @[i] = resource THEN Null ELSE @[i]]]
                            ELSE resources
            /\ unreported' = IF destroyed
                             THEN [unreported EXCEPT
                                     ![g] = @ \cup {i \in ResourceSlots :
                                                      resources[g][i] = resource}]
                             ELSE unreported
            /\ bgLast' = [op |-> "onResourceChange", bindGroup |-> g, layoutKey |-> 0,
                          group |-> 0, resource |-> resource, destroyed |-> destroyed,
                          result |-> "", threw |-> FALSE, surfacing |-> FALSE]
            /\ UNCHANGED <<groupKeys, keyParts, lastLayout>>
            /\ GroupFrame

NextBindGroup == getGpuKeyCall \/ setResourceCall \/ onResourceChangeCall

SpecBindGroup == InitBindGroup /\ [][NextBindGroup]_vars

(***************************************************************************)
(* Properties of BindGroup.                                                *)
(***************************************************************************)
\* the key the resources of a group spell for a layout: the _resourceId of the
\* resource at each declared binding, in declaration order, joined by '|', then
\* '~' and the layout key when some binding is a storage texture or a buffer
\* that is not a uniform buffer
KeyOf(ids, slots, prog, group) ==
    LET layout == prog.gpuLayout[group]
        parts == [i \in DOMAIN layout |-> ToString(ids[slots[layout[i].binding]])]
    IN  IF \E i \in DOMAIN layout : isStorage(layout[i])
        THEN join(Append(parts, "~" \o ToString(prog.layoutKey)))
        ELSE join(parts)

\* the key the resources now in the slots spell
ExpectedKey(slots, prog, group) == KeyOf(resourceIds, slots, prog, group)

\* every binding the layout declares has a resource in its slot
AllBound(slots, prog, group) ==
    \A i \in Referenced(prog, group) : slots[i] \in BindResources

\* C19: the memoized bind-group key is never stale. After any sequence of
\* setResource calls and change notifications, getGpuKey(prog, group) returns
\* the string spelled by the resources now in the slots that
\* prog.gpuLayout[group] declares, with the '~<layout key>' suffix exactly when
\* the group has a storage binding.
KeyNeverStale ==
    (/\ bgLast.op = "getGpuKey"
     /\ AllBound(resources[bgLast.bindGroup], GpuProgram(bgLast.layoutKey), bgLast.group))
        => /\ ~bgLast.threw
           /\ bgLast.result = ExpectedKey(resources[bgLast.bindGroup],
                                          GpuProgram(bgLast.layoutKey), bgLast.group)

\* C20: a destroyed resource fails loudly. After a resource a bind group holds
\* has emitted change with its destroyed flag set, every slot that held it is
\* null, and the next getGpuKey whose layout refers to one of those slots
\* raises an error instead of returning a key.
DestroyedFailsLoudly ==
    /\ (bgLast.op = "onResourceChange" /\ bgLast.destroyed)
           => \A i \in ResourceSlots : resources[bgLast.bindGroup][i] # bgLast.resource
    /\ (bgLast.op = "getGpuKey" /\ bgLast.surfacing) => bgLast.threw

\* when nothing comes between the destruction and the getGpuKey that refers to
\* a nulled slot, that call raises the error
DestroyedFailsAtOnce ==
    [][(/\ bgLast.op = "onResourceChange"
        /\ bgLast.destroyed
        /\ bgLast'.op = "getGpuKey"
        /\ bgLast'.bindGroup = bgLast.bindGroup
        /\ bgLast'.surfacing)
           => bgLast'.threw]_vars

\* C23: a failed key resolution leaves no trace. After a getGpuKey call raised
\* on a bind group with a nulled slot, a getGpuKey on another bind group that
\* returns gives exactly the key it would have given had the failed call never
\* happened, that is, the key the same call computes from an empty keyParts.
FailedKeyLeavesNoTrace ==
    [][(/\ bgLast.op = "getGpuKey"
        /\ bgLast.threw
        /\ \E i \in ResourceSlots : resources[bgLast.bindGroup][i] = Null
        /\ bgLast'.op = "getGpuKey"
        /\ bgLast'.bindGroup # bgLast.bindGroup
        /\ AllBound(resources[bgLast'.bindGroup], GpuProgram(bgLast'.layoutKey),
                    bgLast'.group)
        /\ ~bgLast'.threw)
           => bgLast'.result = resolveKey(<<>>, bgLast'.bindGroup,
                                          GpuProgram(bgLast'.layoutKey),
                                          bgLast'.group).result]_vars

\* a getGpuKey on a healthy bind group has returned a key that begins with the
\* parts a failed call left on keyParts
KeyAfterFailure ==
    /\ bgLast.op = "getGpuKey"
    /\ ~bgLast.threw
    /\ AllBound(resources[bgLast.bindGroup], GpuProgram(bgLast.layoutKey), bgLast.group)
    /\ \E g \in Groups \ {bgLast.bindGroup} : \E i \in ResourceSlots : resources[g][i] = Null
    /\ bgLast.result # ExpectedKey(resources[bgLast.bindGroup],
                                   GpuProgram(bgLast.layoutKey), bgLast.group)
    /\ groupKeys[bgLast.bindGroup][bgLast.layoutKey].dirtyId = updateID[bgLast.bindGroup]

\* a getGpuKey that throws before its first push, or returns from the memo,
\* leaves keyParts as it found it; one that throws later leaves its pushed
\* parts behind, and only a call that computes a key empties the array
PartsOutliveFailure ==
    [][(bgLast'.op = "getGpuKey" /\ bgLast'.threw) => Len(keyParts') >= Len(keyParts)]_vars

\* the resources in the slots of a bind group
Held(g) == {resources[g][i] : i \in ResourceSlots} \cap BindResources

\* the resources whose 'change' event reaches the onResourceChange of a bind group
Listening(g) == {r \in BindResources : subscribed[g][r] > 0}

\* the bind group is subscribed to exactly the resources it holds
SubscribedToHeld == \A g \in Groups : Listening(g) = Held(g)

\* the effect of one setResource(resource, index) call
SetResourceStep ==
    (bgLast'.op = "setResource")
        => LET g == bgLast'.bindGroup
               index == bgLast'.group
               resource == bgLast'.resource
               old == resources[g][index]
           IN  IF resource # old
               THEN /\ resources' = [resources EXCEPT ![g][index] = resource]
                    /\ subscribed'[g][resource] > 0
                    /\ old \in BindResources => subscribed'[g][old] = 0
                    /\ updateID' = [updateID EXCEPT ![g] = @ + 1]
               ELSE UNCHANGED <<resources, updateID, subscribed, lastLayout, groupKeys>>

\* C25: setResource(resource, index) with a resource other than the one in the
\* slot stores it, unsubscribes onResourceChange from the old resource,
\* subscribes it to the new one and adds one to the revision, leaving the other
\* slots alone; with the resource already in the slot it changes nothing; and
\* so the bind group is at all times subscribed to exactly the resources in
\* its slots.
SubscriptionsFollowSlots == []SubscribedToHeld /\ [][SetResourceStep]_vars

\* a bind group holds a resource whose change events no longer reach it
LostSubscription ==
    /\ bgLast.op = "setResource"
    /\ \E r \in Held(bgLast.bindGroup) : subscribed[bgLast.bindGroup][r] = 0

\* what every setResource call does to the slot, the revision and the
\* listeners of the two resources involved
SetResourceEffect == [][SetResourceStep]_vars

\* a resource in a slot is without listener only while another slot of the
\* group holds or has held the same resource
LostOnlyWhenShared ==
    \A g \in Groups : Listening(g) \subseteq Held(g)

(***************************************************************************)
(* The encoder drawing with bind groups whose owners edit them: the        *)
(* elision of setBindGroup against setResource and change notifications.   *)
(***************************************************************************)
\* the renderers under observation
RebindRenderings ==
    { [geometries |-> {IndexedGeometry}, shaders |-> {OneGroupShader},
       pipelines |-> {"p1"}, computes |-> {OneGroupShader}, binds |-> {}],
      [geometries |-> {PlainGeometry}, shaders |-> {TwoGroupShader},
       pipelines |-> {"p1"}, computes |-> {TwoGroupShader}, binds |-> {}] }

\* the owners under observation
RebindOwners ==
    { [made |-> [g \in Groups |-> IF g = "G1" THEN <<"r1", "r2">> ELSE <<"r3", "r1">>],
       sets |-> {<<"G1", "r3", 1>>, <<"G2", "r2", 0>>},
       emitters |-> {"r1"}, renewers |-> {"r1"},
       asks |-> {}] }

\* the encoder and the bind groups as constructed
InitRebind ==
    /\ probe = NoProbe
    /\ stencilMode = DISABLED
    /\ colorMask = 15
    /\ multisampleCount = 1
    /\ depthStencilAttachment = 0
    /\ hdr = HdrUnset
    /\ depthCompareKey = 0
    /\ prevProgKey = NoKey
    /\ prevPipeKey = InitialGlobalKey
    /\ pipeRT = InitialGlobalKey
    /\ pipeCache = <<NoKey, NoKey>>
    /\ pipeStateCaches = <<>>
    /\ pipePartitions = {InitialGlobalKey}
    /\ pipeSubCaches = {}
    /\ pipelines = <<>>
    /\ layoutKey = [g \in Geoms |-> 0]
    /\ bufferLayoutsCache = <<>>
    /\ bindingNamesCache = <<>>
    /\ computeCache = [k \in ComputeKeys |-> 0]
    /\ env = [setters |-> Quiet, variant |-> "blend"]
    /\ lastCall = NoCall
    /\ watch = NoWatch
    /\ requested = {}
    /\ texturePool = <<>>
    /\ poolKeyHash = <<>>
    /\ screenWidth = 0
    /\ screenHeight = 0
    /\ pixelsWidth = 0
    /\ pixelsHeight = 0
    /\ screenThreshold = 512
    /\ enableFullScreen = FALSE
    /\ textures = <<>>
    /\ callers = {}
    /\ held = {}
    /\ hung = FALSE
    /\ poolLast = [op |-> "none"]
    /\ bufferSize = 0
    /\ bufferCount = 0
    /\ offsets = <<>>
    /\ counts = <<>>
    /\ baseInstances = <<>>
    /\ instanceCounts = <<>>
    /\ params = [given |-> FALSE]
    /\ batcher = [sizes |-> {}, params |-> {}]
    /\ drawLast = [op |-> "none", returned |-> TRUE]
    /\ commandEncoder = Undefined
    /\ renderPassEncoder = Undefined
    /\ computePassEncoder = Undefined
    /\ commandFinished = Undefined
    /\ boundBindGroup = [i \in BoundSlots |-> Undefined]
    /\ boundVertexBuffer = [i \in BoundSlots |-> Undefined]
    /\ boundIndexBuffer = Undefined
    /\ boundPipeline = Undefined
    /\ boundCompute = -1
    /\ sentKey = [i \in BoundSlots |-> NoBinding]
    /\ openPasses = 0
    /\ submittedWork = "none"
    /\ encLast = NoEncoderCall
    /\ uses \in RebindRenderings
    /\ \E owner \in RebindOwners :
        /\ resources = [g \in Groups |-> Constructed(owner.made[g]).slots]
        /\ updateID = [g \in Groups |-> Constructed(owner.made[g]).updateID]
        /\ subscribed = [g \in Groups |-> Constructed(owner.made[g]).listeners]
        /\ edits = [sets |-> owner.sets, emitters |-> owner.emitters,
                    renewers |-> owner.renewers, asks |-> owner.asks]
    /\ groupKeys = [g \in Groups |-> [k \in LayoutKeys |-> NoPair]]
    /\ lastLayout = [g \in Groups |-> -1]
    /\ keyParts = <<>>
    /\ resourceIds = [r \in BindResources |-> resourceId(r)]
    /\ destroyedResources = {}
    /\ unreported = [g \in Groups |-> {}]
    /\ bgLast = NoGroupCall
    /\ gpuSources = [s \in Sources |-> 0]
    /\ textureViewHash = [s \in Sources |-> 0]
    /\ bindGroupHash = {}
    /\ managedTextures = {}
    /\ gpuTextures = <<>>
    /\ sourceWidth = [s \in Sources |-> 1]
    /\ texLast = NoTextureCall

NextRebind ==
    \/ renderStartCall
    \/ beginRenderPassCall
    \/ drawCall
    \/ computeCall
    \/ setResourceCall
    \/ onResourceChangeCall

SpecRebind == InitRebind /\ [][NextRebind]_vars

\* the key the binding emitted at a group index was resolved from
SentKey(i) ==
    KeyOf(sentKey[i].ids, sentKey[i].slots, GpuProgram(sentKey[i].layoutKey), i)

\* the step is a draw or compute call of the encoder, made while the pass it
\* records on is open, whose shader uses at index i the bind group bound there
UsesBound(i) ==
    /\ UNCHANGED <<bgLast, updateID>>
    /\ encLast'.op \in {"draw", "compute"}
    /\ ~encLast'.threw
    /\ IF encLast'.op = "draw"
       THEN renderPassEncoder = "open"
       ELSE computePassEncoder = "open" /\ ~Truthy(renderPassEncoder)
    /\ i \in DOMAIN encLast'.arg.shader.groups
    /\ boundBindGroup[i] = encLast'.arg.shader.groups[i]
    /\ sentKey[i].sent

\* the resolved key of the bind group bound at index i is no longer the key
\* the emitted binding was resolved from
KeyChanged(i, prog) ==
    /\ AllBound(resources[boundBindGroup[i]], prog, i)
    /\ ExpectedKey(resources[boundBindGroup[i]], prog, i) # SentKey(i)

RebindStep ==
    \A i \in BoundSlots :
        (UsesBound(i) /\ KeyChanged(i, encLast'.arg.shader.gpuProgram))
            => Call("setBindGroup", i, boundBindGroup[i]) \in EmittedNext

\* C24: within one pass, when the resolved key of the bind group bound at
\* index i has changed since it was bound there, through setResource or through
\* a change notification, the next draw or compute that uses the group at index
\* i emits setBindGroup for it.
RebindOnKeyChange == [][RebindStep]_vars

\* the key changed by a setResource call is always bound again: _lastLayout
\* is reset to -1
RebindStepAfterSetResource ==
    \A i \in BoundSlots :
        (/\ UsesBound(i)
         /\ KeyChanged(i, encLast'.arg.shader.gpuProgram)
         /\ sentKey[i].slots # resources[boundBindGroup[i]])
            => Call("setBindGroup", i, boundBindGroup[i]) \in EmittedNext

RebindAfterSetResource == [][RebindStepAfterSetResource]_vars

(***************************************************************************)
(* GpuTextureSystem: the GPU texture of every source, created on demand,   *)
(* and the texture views and bind groups cached per uid.  A GPU texture is *)
(* its index in gpuTextures; a view is named by the GPU texture it was     *)
(* created from.  Uploads and mipmap generation write texel contents only, *)
(* which the model does not hold.                                          *)
(***************************************************************************)
MaxGpuTextures == 3

\* The pixel widths a source takes (its height and depth stay as they are).
Widths == {1, 2}

\* The fields of the texture system and the device's textures, as one value
\* the handlers below transform.
TextureState ==
    [gpuSources |-> gpuSources, textureViewHash |-> textureViewHash,
     bindGroupHash |-> bindGroupHash, managedTextures |-> managedTextures,
     gpuTextures |-> gpuTextures]

\* _initSource: device.createTexture of the source's pixel size, stored under
\* the source's uid.
initSourceTexture(t, source, width) ==
    [t EXCEPT !.gpuTextures = Append(@, [width |-> width, destroyed |-> FALSE]),
              !.gpuSources[source] = Len(t.gpuTextures) + 1]

\* initSource: _initSource, then the event subscriptions of a source not yet
\* managed; the trailing onSourceUpdate finds the texture just stored.
initSource(t, source, width) ==
    [initSourceTexture(t, source, width) EXCEPT !.managedTextures = @ \cup {source}]

\* getGpuSource: this._gpuSources[source.uid] || this.initSource(source)
getGpuSource(t, source, width) ==
    IF t.gpuSources[source] # 0 THEN t ELSE initSource(t, source, width)

\* onSourceUpdate: getGpuSource, then the upload into it.
onSourceUpdate(t, source, width) == getGpuSource(t, source, width)

\* onSourceUnload: nulls the _gpuSources entry and destroys the GPU texture.
onSourceUnload(t, source) ==
    IF t.gpuSources[source] # 0
    THEN [t EXCEPT !.gpuSources[source] = 0,
                   !.gpuTextures[t.gpuSources[source]].destroyed = TRUE]
    ELSE t

\* onSourceDestroy: unsubscribes, removes the source from managedTextures and
\* unloads it.
onSourceDestroy(t, source) ==
    onSourceUnload([t EXCEPT !.managedTextures = @ \ {source}], source)

\* onSourceResize, the source having the pixel width given.
onSourceResize(t, source, width) ==
    LET oldTexture == t.gpuSources[source]
        dropped == [t EXCEPT !.textureViewHash[source] = 0,
                             !.bindGroupHash = @ \ {source},
                             !.gpuSources[source] = 0]
        created == initSourceTexture(dropped, source, width)
        replaced == [created EXCEPT !.gpuTextures[oldTexture].destroyed = TRUE]
    IN  IF oldTexture = 0 THEN initSource(t, source, width)
        ELSE IF t.gpuTextures[oldTexture].width = width THEN t
        ELSE onSourceUpdate(replaced, source, width)

\* getTextureView with _createTextureView: the cached view, or else a view of
\* the texture bind returns, which is getGpuSource's.
getTextureView(t, source, width) ==
    IF t.textureViewHash[source] # 0 THEN t
    ELSE LET bound == getGpuSource(t, source, width)
         IN  [bound EXCEPT !.textureViewHash[source] = bound.gpuSources[source]]

\* getTextureBindGroup with _createTextureBindGroup, for the texture of the uid.
getTextureBindGroup(t, uid) == [t EXCEPT !.bindGroupHash = @ \cup {uid}]

InitTextures ==
    /\ probe = NoProbe
    /\ stencilMode = DISABLED
    /\ colorMask = 15
    /\ multisampleCount = 1
    /\ depthStencilAttachment = 0
    /\ hdr = HdrUnset
    /\ depthCompareKey = 0
    /\ prevProgKey = NoKey
    /\ prevPipeKey = InitialGlobalKey
    /\ pipeRT = InitialGlobalKey
    /\ pipeCache = <<NoKey, NoKey>>
    /\ pipeStateCaches = <<>>
    /\ pipePartitions = {InitialGlobalKey}
    /\ pipeSubCaches = {}
    /\ pipelines = <<>>
    /\ layoutKey = [g \in Geoms |-> 0]
    /\ bufferLayoutsCache = <<>>
    /\ bindingNamesCache = <<>>
    /\ computeCache = [k \in ComputeKeys |-> 0]
    /\ env = [setters |-> Quiet, variant |-> "blend"]
    /\ lastCall = NoCall
    /\ watch = NoWatch
    /\ requested = {}
    /\ texturePool = <<>>
    /\ poolKeyHash = <<>>
    /\ screenWidth = 0
    /\ screenHeight = 0
    /\ pixelsWidth = 0
    /\ pixelsHeight = 0
    /\ screenThreshold = 512
    /\ enableFullScreen = FALSE
    /\ textures = <<>>
    /\ callers = {}
    /\ held = {}
    /\ hung = FALSE
    /\ poolLast = [op |-> "none"]
    /\ bufferSize = 0
    /\ bufferCount = 0
    /\ offsets = <<>>
    /\ counts = <<>>
    /\ baseInstances = <<>>
    /\ instanceCounts = <<>>
    /\ params = [given |-> FALSE]
    /\ batcher = [sizes |-> {}, params |-> {}]
    /\ drawLast = [op |-> "none", returned |-> TRUE]
    /\ commandEncoder = Undefined
    /\ renderPassEncoder = Undefined
    /\ computePassEncoder = Undefined
    /\ commandFinished = Undefined
    /\ boundBindGroup = [i \in BoundSlots |-> Undefined]
    /\ boundVertexBuffer = [i \in BoundSlots |-> Undefined]
    /\ boundIndexBuffer = Undefined
    /\ boundPipeline = Undefined
    /\ boundCompute = -1
    /\ sentKey = [i \in BoundSlots |-> NoBinding]
    /\ openPasses = 0
    /\ submittedWork = "none"
    /\ encLast = NoEncoderCall
    /\ uses = NoUses
    /\ resources = [g \in Groups |-> [i \in ResourceSlots |-> Undefined]]
    /\ updateID = [g \in Groups |-> -1]
    /\ groupKeys = [g \in Groups |-> [k \in LayoutKeys |-> NoPair]]
    /\ lastLayout = [g \in Groups |-> -1]
    /\ keyParts = <<>>
    /\ subscribed = [g \in Groups |-> [r \in BindResources |-> 0]]
    /\ resourceIds = [r \in BindResources |-> resourceId(r)]
    /\ destroyedResources = {}
    /\ unreported = [g \in Groups |-> {}]
    /\ edits = NoEdits
    /\ bgLast = NoGroupCall
    /\ gpuSources = [s \in Sources |-> 0]
    /\ textureViewHash = [s \in Sources |-> 0]
    /\ bindGroupHash = {}
    /\ managedTextures = {}
    /\ gpuTextures = <<>>
    /\ sourceWidth = [s \in Sources |-> 1]
    /\ texLast = NoTextureCall

TextureFrame == UNCHANGED <<keyVars, pipeVars, poolVars, drawVars, encVars, bgVars>>

\* The device makes at most MaxGpuTextures textures: a call that would make
\* one more is not taken.
WithinDevice(t) == Len(t.gpuTextures) <= MaxGpuTextures

Becomes(t) ==
    /\ WithinDevice(t)
    /\ gpuSources' = t.gpuSources
    /\ textureViewHash' = t.textureViewHash
    /\ bindGroupHash' = t.bindGroupHash
    /\ managedTextures' = t.managedTextures
    /\ gpuTextures' = t.gpuTextures

getGpuSourceCall ==
    \E source \in Sources :
        \E t \in {getGpuSource(TextureState, source, sourceWidth[source])} :
            /\ Becomes(t)
            /\ texLast' = [op |-> "getGpuSource", source |-> source,
                           ret |-> t.gpuSources[source]]
            /\ UNCHANGED sourceWidth
            /\ TextureFrame

getTextureViewCall ==
    \E source \in Sources :
        \E t \in {getTextureView(TextureState, source, sourceWidth[source])} :
            /\ Becomes(t)
            /\ texLast' = [op |-> "getTextureView", source |-> source,
                           ret |-> t.textureViewHash[source]]
            /\ UNCHANGED sourceWidth
            /\ TextureFrame

getTextureBindGroupCall ==
    \E uid \in Sources :
        /\ Becomes(getTextureBindGroup(TextureState, uid))
        /\ texLast' = [op |-> "getTextureBindGroup", source |-> uid, ret |-> 0]
        /\ UNCHANGED sourceWidth
        /\ TextureFrame

\* The events below reach the system from the sources it has subscribed to.
onSourceUpdateEvent ==
    \E source \in managedTextures :
        /\ Becomes(onSourceUpdate(TextureState, source, sourceWidth[source]))
        /\ texLast' = [op |-> "onSourceUpdate", source |-> source, ret |-> 0]
        /\ UNCHANGED sourceWidth
        /\ TextureFrame

\* A source emits 'resize' after it took its new size.
onSourceResizeEvent ==
    \E source \in managedTextures, width \in Widths :
        /\ sourceWidth' = [sourceWidth EXCEPT ![source] = width]
        /\ Becomes(onSourceResize(TextureState, source, width))
        /\ texLast' = [op |-> "onSourceResize", source |-> source, ret |-> 0]
        /\ TextureFrame

onSourceUnloadEvent ==
    \E source \in managedTextures :
        /\ Becomes(onSourceUnload(TextureState, source))
        /\ texLast' = [op |-> "onSourceUnload", source |-> source, ret |-> 0]
        /\ UNCHANGED sourceWidth
        /\ TextureFrame

onSourceDestroyEvent ==
    \E source \in managedTextures :
        /\ Becomes(onSourceDestroy(TextureState, source))
        /\ texLast' = [op |-> "onSourceDestroy", source |-> source, ret |-> 0]
        /\ UNCHANGED sourceWidth
        /\ TextureFrame

NextTextures ==
    \/ getGpuSourceCall
    \/ getTextureViewCall
    \/ getTextureBindGroupCall
    \/ onSourceUpdateEvent
    \/ onSourceResizeEvent
    \/ onSourceUnloadEvent
    \/ onSourceDestroyEvent

SpecTextures == InitTextures /\ [][NextTextures]_vars

\* The view getTextureView just returned was created from a GPU texture that
\* is not destroyed and is the one the source has now.
ViewOfCurrentTexture ==
    /\ ~gpuTextures[texLast.ret].destroyed
    /\ texLast.ret = gpuSources[texLast.source]

\* C40: texture views never outlive their GPU texture. Whatever getGpuSource,
\* getTextureView, resize, unload and destroy events came before, the view
\* getTextureView returns was not created from a GPU texture that has been
\* destroyed since, and after an unload or a size-changing resize it is a view
\* of the GPU texture created after that event.
TextureViewsLive == (texLast.op = "getTextureView") => ViewOfCurrentTexture

\* getTextureView returns the view of a destroyed GPU texture although the
\* source has a new one: the view cached before an unload.
StaleTextureView ==
    /\ texLast.op = "getTextureView"
    /\ gpuTextures[texLast.ret].destroyed
    /\ gpuSources[texLast.source] # 0
    /\ texLast.ret # gpuSources[texLast.source]

\* What does hold: a cached view whose GPU texture is not destroyed is a view
\* of the GPU texture the source has now, and a size-changing resize of a
\* source that has a GPU texture leaves no cached view of the old one.
LiveViewsCurrent ==
    \A source \in Sources :
        (/\ textureViewHash[source] # 0
         /\ ~gpuTextures[textureViewHash[source]].destroyed)
            => textureViewHash[source] = gpuSources[source]

ResizeDropsViewStep ==
    \A source \in Sources :
        (/\ texLast'.op = "onSourceResize"
         /\ texLast'.source = source
         /\ gpuSources[source] # 0
         /\ gpuSources'[source] # gpuSources[source])
            => /\ textureViewHash'[source] = 0
               /\ gpuTextures'[gpuSources[source]].destroyed

ResizeDropsView == [][ResizeDropsViewStep]_vars

====
